---- MODULE Spec2Model ----
(***************************************************************************)
(* A model of the yasvi editor core: rows (buffer_row.c), the row list     *)
(* (buffer.c), the highlighter (buffer_row.c) and the key dispatcher       *)
(* (editor.c).  Characters are their ASCII codes, C arrays are sequences   *)
(* whose element at C index i is at position i + 1, pointers to rows are   *)
(* row identifiers with NULL = 0.                                          *)
(***************************************************************************)
EXTENDS Integers, Sequences, FiniteSets, TLC

VARIABLES
  rows,          \* the heap of BufferRow objects: row id -> BufferRow
  buffer,        \* the Buffer: head, tail, current_row, number_of_rows, filename
  last,          \* the last operation applied, its arguments and its result
  kw2_past_end,  \* what the build placed after the keywords_2 array
  past_storage,  \* what the heap holds behind the storage of a row
  fresh_byte,    \* what a byte of allocated storage holds before it is written
  revision,      \* which revision's row functions act: "buffer.c" or "buffer_row.c"
  fault,         \* TRUE once the program has executed a faulting access
  editor,        \* the Editor object of main
  pc             \* the position of main in its loop

vars ==
  <<rows, buffer, last, kw2_past_end, past_storage, fresh_byte, revision, fault, editor, pc>>

(***************************************************************************)
(* Characters                                                              *)
(***************************************************************************)
\* The printable ASCII characters, code 32 (space) to 126 (~), in order.
Printable ==
  <<
  " ", "!", "\"", "#", "$", "%", "&", "'", "(", ")", "*", "+", ",", "-",
    ".", "/", "0", "1", "2", "3", "4", "5", "6", "7", "8", "9", ":", ";",
    "<", "=", ">", "?", "@", "A", "B", "C", "D", "E", "F", "G", "H", "I",
    "J", "K", "L", "M", "N", "O", "P", "Q", "R", "S", "T", "U", "V", "W",
    "X", "Y", "Z", "[", "\\", "]", "^", "_", "GRAVE", "a", "b", "c", "d", "e",
    "f", "g", "h", "i", "j", "k", "l", "m", "n", "o", "p", "q", "r", "s",
    "t", "u", "v", "w", "x", "y", "z", "{", "|", "}", "~" >>

\* The code of a printable character given as a one-character string.
Asc(c) == 31 + (CHOOSE k \in 1..Len(Printable) : Printable[k] = c)

\* The codes of a word given as a tuple of one-character strings.
W(t) == [k \in 1..Len(t) |-> Asc(t[k])]

NULL == 0
NUL == 0
CH_TAB == 9
CH_LF == 10
CH_VT == 11
CH_FF == 12
CH_CR == 13
CH_ESC == 27
CH_SLASH == Asc("/")
CH_STAR == Asc("*")
CH_BACKSLASH == Asc("\\")
CH_DQUOTE == Asc("\"")
CH_SQUOTE == Asc("'")
CH_HASH == Asc("#")
CH_UA == Asc("A")
CH_UZ == Asc("Z")
CH_a == Asc("a")
CH_z == Asc("z")
CH_UNDERSCORE == Asc("_")
CH_0 == Asc("0")
CH_9 == Asc("9")
CH_LT == Asc("<")
CH_GT == Asc(">")
CH_SPACE == Asc(" ")
\* A cell of malloc'ed or realloc'ed storage that was never written.
Uninit == -1

\* strchr(set, c) != NULL: the terminating NUL of the set matches too.
strchr(set, c) == c \in set \cup {NUL}

\* const char whitespace[] = " \f\n\r\t\v"
whitespace == {CH_SPACE, CH_FF, CH_LF, CH_CR, CH_TAB, CH_VT}

\* C array access: element at C index i.
At(a, i) == a[i + 1]
Put(a, i, v) == [a EXCEPT ![i + 1] = v]
\* n cells of fresh storage.
Fresh(n) == [k \in 1..n |-> Uninit]
\* realloc(a, n): the old cells (as many as fit), then fresh ones.
realloc(a, n) == [k \in 1..n |-> IF k <= Len(a) THEN a[k] ELSE Uninit]
\* memmove(&a[dst], &a[src], n) inside one array.
memmove(a, dst, src, n) ==
  [k \in 1..Len(a) |->
     IF k - 1 >= dst /\ k - 1 < dst + n THEN a[k - dst + src] ELSE a[k]]
\* memcpy(&a[dst], str, n).
memcpy(a, dst, str, n) ==
  [k \in 1..Len(a) |->
     IF k - 1 >= dst /\ k - 1 < dst + n THEN str[k - dst] ELSE a[k]]
\* strlen(&a[from]): cells up to the first NUL.
RECURSIVE strlen_from(_, _)
strlen_from(a, from) ==
  IF from >= Len(a) \/ At(a, from) = NUL THEN 0 ELSE 1 + strlen_from(a, from + 1)
\* The C string stored in a: the cells before the first NUL.
CString(a) == SubSeq(a, 1, strlen_from(a, 0))
\* The logical content of a row: data[0 .. len).
Content(row) == SubSeq(row.data, 1, row.len)

(***************************************************************************)
(* Highlighter (buffer_row.c)                                              *)
(***************************************************************************)
EHighlightToken_Normal == 0
EHighlightToken_Keyword == 1
EHighlightToken_String == 2
EHighlightToken_Comment == 3
EHighlightToken_Type == 4
EHighlightToken_Preprocessor == 5
EHighlightToken_Digit == 6
EHighlightToken_Symbol == 7
EHighlightToken_Keyword2 == 8
EHighlightToken_Symbol2 == 9
EHighlightToken_Count == 10
\* The number of entries of highlight_styles and highlight_additional_style.
highlight_styles_entries == 8

symbols == {Asc(c) : c \in {"+", "-", "|", "<", ">", "=", ":", "?", "!", "(",
                            ")", ",", ";", "{", "}", "/"}}
symbols2 == {Asc(c) : c \in {"*", "&", "{", "}", "[", "]"}}
whitespace_symbols == whitespace
include_symbols == {CH_DQUOTE, CH_LT, CH_GT}
string_symbols == {CH_DQUOTE, CH_SQUOTE}

\* The words of a list given as tuples of one-character strings.
Words(list) == [k \in 1..Len(list) |-> W(list[k])]

keywords_1 ==
  Words(<< <<"i","f">>, <<"e","l","s","e">>, <<"w","h","i","l","e">>,
           <<"f","o","r">>, <<"r","e","t","u","r","n">>,
           <<"b","r","e","a","k">>, <<"c","o","n","t","i","n","u","e">>,
           <<"s","w","i","t","c","h">>, <<"c","a","s","e">>,
           <<"d","e","f","a","u","l","t">>, <<"d","o">>,
           <<"g","o","t","o">>, <<"t","y","p","e","d","e","f">>,
           <<"s","t","r","u","c","t">>, <<"u","n","i","o","n">>,
           <<"s","t","a","t","i","c">> >>)

types ==
  Words(<< <<"i","n","t">>, <<"c","h","a","r">>, <<"f","l","o","a","t">>,
           <<"d","o","u","b","l","e">>, <<"v","o","i","d">>,
           <<"b","o","o","l">>, <<"s","h","o","r","t">>,
           <<"l","o","n","g">>, <<"u","n","s","i","g","n","e","d">>,
           <<"s","i","g","n","e","d">>, <<"s","i","z","e","_","t">> >>)

\* keywords_2 has no terminating NULL entry: is_token reads on past its end,
\* into whatever the build placed there (kw2_past_end): a NULL, or the
\* entries of the array that follows.
keywords_2 ==
  Words(<< <<"f","a","l","s","e">>, <<"t","r","u","e">>,
           <<"N","U","L","L">>, <<"F","A","L","S","E">>,
           <<"T","R","U","E">> >>)

include_word == W(<<"i","n","c","l","u","d","e">>)

PastEndOutcomes == {"null", "types"}
keywords_2_as_read ==
  IF kw2_past_end = "types" THEN keywords_2 \o types ELSE keywords_2

\* is_token(array, &data[from], n): some entry of length n equals data[from .. from+n).
is_token(array, data, from, n) ==
  \E k \in 1..Len(array) :
     /\ Len(array[k]) = n
     /\ \A j \in 0..(n - 1) : At(data, from + j) = array[k][j + 1]

\* The tags after highlight_token(row, token_start, i).
SetTags(hl, from, to, token) ==
  [k \in 1..Len(hl) |-> IF k - 1 >= from /\ k - 1 < to THEN token ELSE hl[k]]

highlight_token(hl, data, token_start, i) ==
  IF is_token(keywords_1, data, token_start, i - token_start)
    THEN SetTags(hl, token_start, i, EHighlightToken_Keyword)
  ELSE IF is_token(keywords_2_as_read, data, token_start, i - token_start)
    THEN SetTags(hl, token_start, i, EHighlightToken_Keyword2)
  ELSE IF is_token(types, data, token_start, i - token_start)
    THEN SetTags(hl, token_start, i, EHighlightToken_Type)
  ELSE hl

PastStorageOutcomes == {"other", "include"}

\* strstr(&data[from], "include") == &data[from]: the C string at from starts
\* with the word.  The cells of the storage are compared one by one; a
\* comparison that runs off the storage, from a start behind it or after the
\* cells up to its end have matched, reads what the heap holds there
\* (past_storage): the rest of the word, or something else.
StartsWith(data, from, word) ==
  IF \E j \in 0..(Len(word) - 1) :
       from + j < Len(data) /\ At(data, from + j) # word[j + 1]
    THEN FALSE
  ELSE IF from + Len(word) <= Len(data) THEN TRUE
  ELSE past_storage = "include"

IsAlnum_(c) ==
  \/ c >= CH_UA /\ c <= CH_UZ
  \/ c >= CH_a /\ c <= CH_z
  \/ c = CH_UNDERSCORE
  \/ c >= CH_0 /\ c <= CH_9

\* One iteration of the for loop of buffer_row_highlight_line, on character i.
\* h holds the row's highlight fields and the function's local variables.
HlChar(h, data, len, i) ==
  LET c == At(data, i)
      tag(t) == Put(h.highlight_data, i, t)
      tag2(t) == Put(Put(h.highlight_data, i, t), i - 1, t)
  IN
  IF h.comment_started # 0 THEN
    IF c = CH_SLASH /\ i > 1 /\ At(data, i - 1) = CH_STAR
      THEN [h EXCEPT !.highlight_comment_open = 0, !.comment_started = 0,
                     !.highlight_data = tag(EHighlightToken_Comment)]
      ELSE [h EXCEPT !.highlight_data = tag(EHighlightToken_Comment)]
  ELSE IF h.string_started # 0 THEN
    IF c = CH_BACKSLASH THEN
      IF i = len - 1
        THEN [h EXCEPT !.highlight_data = tag(EHighlightToken_Digit),
                       !.escape_sequence_started = 0,
                       !.highlight_string_open = h.string_started,
                       !.process_next_row = TRUE]
        ELSE [h EXCEPT !.highlight_data = tag(EHighlightToken_Digit),
                       !.escape_sequence_started = 1]
    ELSE IF h.escape_sequence_started # 0 THEN
      IF strchr(whitespace_symbols, c)
        THEN [h EXCEPT !.highlight_data = tag(EHighlightToken_Digit),
                       !.escape_sequence_started = 0,
                       !.highlight_string_open = h.string_started,
                       !.process_next_row = TRUE]
        ELSE [h EXCEPT !.highlight_data = tag(EHighlightToken_Digit),
                       !.escape_sequence_started = 0]
    ELSE IF c = h.string_started
      THEN [h EXCEPT !.highlight_data = tag(EHighlightToken_String),
                     !.string_started = 0, !.highlight_string_open = 0]
      ELSE [h EXCEPT !.highlight_data = tag(EHighlightToken_String)]
  ELSE IF h.include_started # 0 THEN
    LET inc == IF c \in include_symbols
                 THEN h.include_started + 1 ELSE h.include_started
    IN [h EXCEPT !.include_started = IF inc = 3 THEN 0 ELSE inc,
                 !.highlight_data = tag(EHighlightToken_String)]
  ELSE IF h.preprocessor_started # 0 THEN
    IF strchr(whitespace_symbols, c)
      THEN [h EXCEPT !.highlight_data = tag(EHighlightToken_Normal),
                     !.include_started =
                        IF StartsWith(data, h.preprocessor_started,
                                      include_word)
                          THEN 1 ELSE @,
                     !.preprocessor_started = 0]
      ELSE [h EXCEPT !.highlight_data = tag(EHighlightToken_Preprocessor)]
  ELSE IF strchr(string_symbols, c) THEN
    [h EXCEPT !.string_started = c, !.highlight_string_open = c,
              !.highlight_data = tag(EHighlightToken_String)]
  ELSE IF c = CH_HASH THEN
    [h EXCEPT !.preprocessor_started = i + 1,
              !.highlight_data = tag(EHighlightToken_Preprocessor)]
  ELSE IF c = CH_SLASH THEN
    IF i > 0 THEN
      IF At(data, i - 1) = CH_SLASH
        THEN [h EXCEPT !.comment_started = 1,
                       !.highlight_data = tag2(EHighlightToken_Comment)]
      ELSE IF At(data, i - 1) = CH_STAR
        THEN [h EXCEPT !.highlight_data = tag2(EHighlightToken_Comment),
                       !.highlight_comment_open = 0, !.comment_started = 0]
      ELSE h
    ELSE [h EXCEPT !.highlight_data = tag(EHighlightToken_Symbol)]
  ELSE IF c = CH_STAR THEN
    IF i > 0 /\ At(data, i - 1) = CH_SLASH
      THEN [h EXCEPT !.highlight_data = tag2(EHighlightToken_Comment),
                     !.highlight_comment_open = 1, !.comment_started = 1]
      ELSE LET hl1 == IF h.token_start # -1
                        THEN highlight_token(h.highlight_data, data,
                                             h.token_start, i)
                        ELSE h.highlight_data
           IN [h EXCEPT !.token_start = -1,
                        !.highlight_data = Put(hl1, i, EHighlightToken_Symbol2)]
  ELSE IF c = CH_BACKSLASH THEN
    [h EXCEPT !.highlight_data = tag(EHighlightToken_Digit)]
  ELSE
    \* Line 204 tags Normal; a digit that starts no token is tagged Digit at
    \* line 212 and Normal again at line 217.
    LET hl0 == tag(EHighlightToken_Normal)
        tok1 == IF IsAlnum_(c)
                  THEN IF h.token_start = -1 /\ ~(c >= CH_0 /\ c <= CH_9)
                         THEN i ELSE h.token_start
                  ELSE -1
        hl1 == IF ~IsAlnum_(c) /\ h.token_start # -1
                 THEN highlight_token(hl0, data, h.token_start, i)
                 ELSE hl0
        hl2 == IF tok1 = -1
                 THEN IF strchr(symbols, c)
                        THEN Put(hl1, i, EHighlightToken_Symbol)
                      ELSE IF strchr(symbols2, c)
                        THEN Put(hl1, i, EHighlightToken_Symbol2)
                      ELSE hl1
                 ELSE hl1
    IN [h EXCEPT !.token_start = tok1, !.highlight_data = hl2]

\* The for loop over the characters i .. len - 1 of one row.
RECURSIVE HlScan(_, _, _, _)
HlScan(h, data, len, i) ==
  IF i >= len THEN h
  ELSE CHOOSE r \in {HlScan(n, data, len, i + 1) :
                       n \in {HlChar(h, data, len, i)}} : TRUE

\* The state a row's scan starts in: the row's fields as the previous row's
\* exit state sets them, and the locals, those declared outside the while
\* loop (loc) carried over from the row before.
HlStart(rs, id, loc) ==
  LET row == rs[id]
      has_prev == row.prev # NULL
      prev_string == IF has_prev THEN rs[row.prev].highlight_string_open ELSE 0
      prev_comment == IF has_prev THEN rs[row.prev].highlight_comment_open ELSE 0
  IN [highlight_data |-> row.highlight_data,
      highlight_comment_open |->
         IF prev_comment # 0 THEN prev_comment
         ELSE row.highlight_comment_open,
      highlight_string_open |-> row.highlight_string_open,
      comment_started |-> IF prev_comment # 0 THEN 1 ELSE 0,
      string_started |->
         IF prev_string # 0 /\ row.highlight_comment_open = 0
           THEN prev_string ELSE loc.string_started,
      include_started |-> loc.include_started,
      preprocessor_started |-> loc.preprocessor_started,
      escape_sequence_started |-> loc.escape_sequence_started,
      token_start |-> -1,
      process_next_row |-> FALSE]

\* A pass that marks the row before row id as well.
HlStore_marks_previous(rs, id, h1) ==
  LET prev == rs[id].prev
      rs1 == IF prev # NULL THEN [rs EXCEPT ![prev].dirty = TRUE] ELSE rs
  IN [rs1 EXCEPT ![id] =
        [rs[id] EXCEPT !.dirty = TRUE,
                       !.highlight_data =
                          IF h1.token_start # -1
                            THEN highlight_token(h1.highlight_data, rs[id].data,
                                                 h1.token_start, rs[id].len)
                            ELSE h1.highlight_data,
                       !.highlight_comment_open = h1.highlight_comment_open,
                       !.highlight_string_open = h1.highlight_string_open]]

\* The rows once the scan of row id has ended in h1: the token that runs to
\* the end of the row is looked up and the row is marked dirty.
HlStore(rs, id, h1) ==
  [rs EXCEPT ![id] =
     [rs[id] EXCEPT !.dirty = TRUE,
                    !.highlight_data =
                       IF h1.token_start # -1
                         THEN highlight_token(h1.highlight_data, rs[id].data,
                                              h1.token_start, rs[id].len)
                         ELSE h1.highlight_data,
                    !.highlight_comment_open = h1.highlight_comment_open,
                    !.highlight_string_open = h1.highlight_string_open]]

\* The while loop of buffer_row_highlight_line from row id on.
RECURSIVE HlRows(_, _, _)
\* The end of one pass of the while loop: the loop goes on to the next row
\* when the scan asked for it.
HlRowEnd(rs, id, h1) ==
  IF h1.process_next_row
    THEN HlRows(HlStore(rs, id, h1), rs[id].next,
                [string_started |-> h1.string_started,
                 include_started |-> h1.include_started,
                 preprocessor_started |-> h1.preprocessor_started,
                 escape_sequence_started |-> h1.escape_sequence_started])
    ELSE HlStore(rs, id, h1)

HlRows(rs, id, loc) ==
  IF id = NULL THEN rs
  ELSE HlRowEnd(rs, id, HlScan(HlStart(rs, id, loc), rs[id].data, rs[id].len, 0))

\* buffer_row_highlight_line(row): the rows after the call.
buffer_row_highlight_line(rs, id) ==
  HlRows(rs, id, [string_started |-> 0, include_started |-> 0,
                  preprocessor_started |-> 0, escape_sequence_started |-> 0])

\* A byte of highlight_data that was never written is read by the paint as
\* whatever the allocator left there: a byte that is the tag of a style, or
\* one of the two tags without a style.
FreshByteOutcomes == {EHighlightToken_Normal, EHighlightToken_Symbol2}

\* hl[i] as editor_decorate_and_draw_line reads it.
TagRead(highlight_data, i) ==
  IF At(highlight_data, i) = Uninit THEN fresh_byte ELSE At(highlight_data, i)

\* static char line_buffer[1024] of editor_draw_buffers.
LineBufferSize == 1024
\* editor_write_highlight_style writes nothing into 15 bytes or fewer.
StyleRoom == 15

\* The token editor_write_highlight_style looks up: a token below 0 or from
\* EHighlightToken_Count on is replaced by EHighlightToken_Normal.
StyleToken(token) ==
  IF token < 0 \/ token >= EHighlightToken_Count THEN EHighlightToken_Normal
  ELSE token

\* editor_write_highlight_style(editor, token, buffer, n) reads past the end
\* of highlight_styles, which has highlight_styles_entries entries.
editor_write_highlight_style_faults(token, n) ==
  StyleToken(token) >= highlight_styles_entries /\ n > StyleRoom

\* The value editor_write_highlight_style returns: the bytes of the style,
\* 14 for the tag with an additional style (Comment), 10 for the others.
editor_write_highlight_style(token, n) ==
  IF n <= StyleRoom THEN 0
  ELSE IF StyleToken(token) = EHighlightToken_Comment THEN 14
  ELSE 10

\* editor_decorate_and_draw_line looks up a style at character i of the
\* visible part: the tag of the character is not the tag of the character
\* before it (EHighlightToken_Normal before the first).
StyleChanges(row, start_column, i) ==
  TagRead(row.highlight_data, start_column + i)
    # (IF i = 0 THEN EHighlightToken_Normal
       ELSE TagRead(row.highlight_data, start_column + i - 1))

\* index of editor_decorate_and_draw_line when the loop is at character i:
\* the i characters and the styles written before it.
BytesBefore(row, start_column, i) ==
  LET changes == {j \in 0..(i - 1) : StyleChanges(row, start_column, j)}
      comments == {j \in changes :
                     StyleToken(TagRead(row.highlight_data, start_column + j))
                       = EHighlightToken_Comment}
  IN i + 10 * Cardinality(changes) + 4 * Cardinality(comments)

\* editor_decorate_and_draw_line(editor, line_number, row, buffer, n) faults:
\* the loop comes to a character before the first NUL whose tag has no
\* style while more than StyleRoom of the n bytes are left.  index never
\* decreases, so the styles before that character have all been written.
DrawFaults(row, start_column, n) ==
  \E i \in 0..(row.len - start_column - 1) :
    /\ StyleChanges(row, start_column, i)
    /\ editor_write_highlight_style_faults(
         TagRead(row.highlight_data, start_column + i),
         n - BytesBefore(row, start_column, i))
    /\ \A j \in 0..i : At(row.data, start_column + j) # NUL

\* The number of decimal digits of n >= 1: what itoa(row_number, ..., 10)
\* writes, and the divisions by ten count_digits makes.
RECURSIVE DecimalDigits(_)
DecimalDigits(n) == IF n < 10 THEN 1 ELSE 1 + DecimalDigits(n \div 10)

\* count_digits(number): 1 for 0, 0 for a number below 0.
count_digits(number) ==
  IF number = 0 THEN 1
  ELSE IF number < 0 THEN 0
  ELSE DecimalDigits(number)

\* The loop of editor_draw_buffers that pads the line number with blanks:
\* its bound shrinks as line_length grows.
RECURSIVE GutterPad(_, _, _)
GutterPad(i, line_length, number_of_line_digits) ==
  IF i < number_of_line_digits - line_length + 11
    THEN GutterPad(i + 1, line_length + 1, number_of_line_digits)
  ELSE line_length

\* line_length of editor_draw_buffers when the text of the row is painted:
\* the ten bytes of the style, the line number and the blanks.
GutterLength(row_number, number_of_line_digits) ==
  GutterPad(0, 10 + DecimalDigits(row_number), number_of_line_digits)

\* The while loop of editor_draw_buffers from line_number on, row id being
\* the next one to paint: TRUE when the paint of a dirty row faults.
RECURSIVE DrawRowsFault(_, _, _, _, _, _, _)
DrawRowsFault(rs, id, line_number, window_height, start_line, start_column, digits) ==
  /\ line_number < window_height
  /\ id # NULL
  /\ \/ /\ rs[id].dirty
        /\ DrawFaults(rs[id], start_column,
                      LineBufferSize - GutterLength(line_number + start_line,
                                                    digits))
     \/ DrawRowsFault(rs, rs[id].next, line_number + 1, window_height,
                      start_line, start_column, digits)

\* editor_draw_buffers faults on a document shown from its first row and
\* first column in a window that holds all its rows.
DrawnFaults(rs, b) ==
  LET window_height == b.number_of_rows + 1
  IN DrawRowsFault(rs, b.head, 1, window_height, 0, 0,
                   count_digits(0 + window_height) + 1)

(***************************************************************************)
(* Rows (buffer_row.c)                                                     *)
(***************************************************************************)
\* A BufferRow right after its allocation.  The allocation of the highlight
\* storage and the zeroing of the highlight fields are not in buffer.c.
NewRow(data, len, allocated_size) ==
  [data |-> data, highlight_data |-> Fresh(allocated_size), len |-> len,
   allocated_size |-> allocated_size, next |-> NULL, prev |-> NULL,
   dirty |-> TRUE, highlight_comment_open |-> 0, highlight_string_open |-> 0]

buffer_row_has_whitespace_at_position(rs, id, position) ==
  /\ id # NULL
  /\ position >= 0
  /\ position < rs[id].len
  /\ strchr(whitespace, At(rs[id].data, position))

buffer_row_get_length(rs, id) == IF id = NULL THEN 0 ELSE rs[id].len

\* strspn(&data[from], whitespace): the run of whitespace characters at from.
RECURSIVE strspn_whitespace(_, _)
strspn_whitespace(data, from) ==
  IF from < Len(data) /\ At(data, from) \in whitespace
    THEN 1 + strspn_whitespace(data, from + 1)
    ELSE 0

buffer_row_get_offset_to_first_char(rs, id, start_index) ==
  IF id = NULL \/ start_index < 0 \/ start_index >= rs[id].len THEN 0
  ELSE strspn_whitespace(rs[id].data, start_index)

\* The first for loop of buffer_row_get_offset_to_next_word: the offset and
\* first_char it is left with.
RECURSIVE NextWordLoop(_, _, _, _, _)
NextWordLoop(rs, id, offset, stripped, first_char) ==
  IF offset >= rs[id].len
    THEN [offset |-> offset, first_char |-> first_char]
  ELSE IF ~first_char /\ buffer_row_has_whitespace_at_position(rs, id, offset)
    THEN NextWordLoop(rs, id, offset + 1, stripped + 1, FALSE)
  ELSE IF stripped > 0
    THEN [offset |-> stripped, first_char |-> TRUE]
  ELSE IF buffer_row_has_whitespace_at_position(rs, id, offset)
    THEN [offset |-> offset, first_char |-> TRUE]
  ELSE NextWordLoop(rs, id, offset + 1, stripped, TRUE)

\* The second loop: the first index from offset on that is no whitespace,
\* or -1 when the loop runs to the end of the row.
RECURSIVE SkipWhitespace(_, _, _)
SkipWhitespace(rs, id, offset) ==
  IF offset >= rs[id].len THEN -1
  ELSE IF ~buffer_row_has_whitespace_at_position(rs, id, offset) THEN offset
  ELSE SkipWhitespace(rs, id, offset + 1)

buffer_row_get_offset_to_next_word(rs, id, start_index) ==
  IF id = NULL \/ start_index < 0 \/ start_index >= rs[id].len THEN 0
  ELSE
    LET l == NextWordLoop(rs, id, start_index, 0, FALSE)
        found == SkipWhitespace(rs, id, l.offset)
    IN IF found # -1 THEN found - start_index
       ELSE IF l.first_char THEN rs[id].len - start_index
       ELSE 0

\* The for loop of buffer_row_get_offset_to_prev_word from index i down to 1:
\* the offset it returns, or "none" with the first_char it is left with.
RECURSIVE PrevWordLoop(_, _, _, _, _)
PrevWordLoop(rs, id, start_index, i, first_char) ==
  IF i <= 0 THEN [returned |-> FALSE, first_char |-> first_char, ret |-> 0]
  ELSE IF ~first_char /\ buffer_row_has_whitespace_at_position(rs, id, i)
    THEN PrevWordLoop(rs, id, start_index, i - 1, FALSE)
  ELSE IF buffer_row_has_whitespace_at_position(rs, id, i)
    THEN [returned |-> TRUE, first_char |-> TRUE, ret |-> i - start_index + 1]
  ELSE PrevWordLoop(rs, id, start_index, i - 1, TRUE)

buffer_row_get_offset_to_prev_word(rs, id, start_index) ==
  IF id = NULL \/ start_index < 0 \/ start_index > rs[id].len THEN 0
  ELSE
    LET l == PrevWordLoop(rs, id, start_index, start_index - 1, FALSE)
    IN IF l.returned THEN l.ret
       ELSE IF l.first_char THEN -start_index
       ELSE 0

\* buffer_row_replace_line(row, new_line); new_line is a C string given by its
\* characters.
buffer_row_replace_line(rs, id, new_line) ==
  IF id = NULL THEN rs ELSE
  LET row == rs[id]
      len == Len(new_line)
      rs1 == [rs EXCEPT ![id] =
                [row EXCEPT !.len = len,
                            !.allocated_size = len + 1,
                            !.data = new_line \o <<NUL>>,
                            !.highlight_data = realloc(row.highlight_data, len + 1),
                            !.dirty = TRUE]]
  IN buffer_row_highlight_line(rs1, id)

\* As buffer_row_remove_chars_ret, with the count clamped one short.
buffer_row_remove_chars_ret_short(rs, id, index, number) ==
  IF id = NULL \/ index < 0 \/ index >= rs[id].len THEN 0
  ELSE IF number + index >= rs[id].len THEN rs[id].len - index - 1
  ELSE number

\* The number buffer_row_remove_chars removes (its return value).
buffer_row_remove_chars_ret(rs, id, index, number) ==
  IF id = NULL \/ index < 0 \/ index >= rs[id].len THEN 0
  ELSE IF number + index > rs[id].len THEN rs[id].len - index
  ELSE number

buffer_row_remove_chars(rs, id, index, number) ==
  IF id = NULL \/ index < 0 \/ index >= rs[id].len THEN rs
  ELSE LET row == rs[id]
           n == buffer_row_remove_chars_ret(rs, id, index, number)
       IN
       LET moved == memmove(row.data, index, index + n, row.len - index - n)
           rs1 == [rs EXCEPT ![id] =
                     [row EXCEPT !.data = Put(moved, row.len - n, NUL),
                                 !.len = row.len - n,
                                 !.dirty = TRUE]]
       IN buffer_row_highlight_line(rs1, id)

\* bool buffer_row_remove_char(row, index): the int converted to bool.
buffer_row_remove_char_ret(rs, id, index) ==
  buffer_row_remove_chars_ret(rs, id, index, 1) # 0

buffer_row_remove_char(rs, id, index) ==
  buffer_row_remove_chars(rs, id, index, 1)

\* memmove in buffer_row_insert_chars is called with the size
\* len - index + 1, which is negative (a huge size_t) for index > len + 1.
\* With number = 0 the source and the destination are the same cell and
\* the call returns with nothing moved; with number > 0 it runs off the
\* storage.
buffer_row_insert_chars_faults(rs, id, index, number) ==
  id # NULL /\ index >= 0 /\ rs[id].len - index + 1 < 0 /\ number # 0

\* buffer_row_insert_chars(row, index, str, number): only row == NULL and
\* index < 0 are turned away.
buffer_row_insert_chars(rs, id, index, str, number) ==
  IF id = NULL \/ index < 0
       \/ buffer_row_insert_chars_faults(rs, id, index, number) THEN rs
  ELSE
    LET row == rs[id]
        grow == row.len + number >= row.allocated_size
        size == IF grow THEN (row.len + number) * 2 ELSE row.allocated_size
        data0 == IF grow THEN realloc(row.data, size) ELSE row.data
        hl0 == IF grow THEN realloc(row.highlight_data, size)
               ELSE row.highlight_data
        data1 == memmove(data0, index + number, index, row.len - index + 1)
        data2 == memcpy(data1, index, str, number)
        rs1 == [rs EXCEPT ![id] =
                  [row EXCEPT !.allocated_size = size,
                              !.data = data2,
                              !.highlight_data = hl0,
                              !.len = row.len + number,
                              !.dirty = TRUE]]
    IN buffer_row_highlight_line(rs1, id)

buffer_row_insert_char(rs, id, index, c) ==
  buffer_row_insert_chars(rs, id, index, <<c>>, 1)

buffer_row_append_char(rs, id, c) ==
  IF id = NULL THEN rs ELSE buffer_row_insert_char(rs, id, rs[id].len, c)

buffer_row_append_str(rs, id, str, number) ==
  IF id = NULL THEN rs
  ELSE buffer_row_insert_chars(rs, id, rs[id].len, str, number)

buffer_row_trim(rs, id, start_index) ==
  IF id = NULL \/ start_index < 0 \/ start_index >= rs[id].len THEN rs
  ELSE buffer_row_highlight_line(
         [rs EXCEPT ![id] = [rs[id] EXCEPT !.len = start_index,
                                           !.data = Put(rs[id].data, start_index, NUL),
                                           !.dirty = TRUE]], id)

buffer_row_mark_dirty(rs, id) ==
  IF id = NULL THEN rs ELSE [rs EXCEPT ![id].dirty = TRUE]

\* buffer_row_set_highlight(row, column_start, column_end, token): the tags
\* of the columns column_start .. column_end - 1 are set; the dirty flag is
\* left alone.
buffer_row_set_highlight(rs, id, column_start, column_end, token) ==
  IF id = NULL \/ column_start < 0 \/ column_end < column_start
       \/ column_end > rs[id].len
    THEN rs
  ELSE [rs EXCEPT ![id].highlight_data =
          [k \in DOMAIN @ |->
             IF k - 1 >= column_start /\ k - 1 < column_end THEN token
             ELSE @[k]]]

\* The block a with the memory behind it, n cells in all.
Behind(a, n) == IF Len(a) >= n THEN a ELSE a \o Fresh(n - Len(a))

\* buffer_row_insert_char of buffer.c writes behind the block of row->data:
\* it trusts allocated_size, which buffer_row_replace_line leaves stale, and
\* its memmove and its store reach the cell len + 1.
buffer_c_row_insert_char_overruns(row, index) ==
  /\ index >= 0
  /\ index <= row.len
  /\ row.len + 1 < row.allocated_size
  /\ row.len + 2 > Len(row.data)

\* buffer_row_insert_char of buffer.c: grows by 16, does not highlight.  A
\* write behind the block, where it does not fault, lands in the memory
\* behind it.
buffer_c_row_insert_char(row, index, c) ==
  IF index < 0 \/ index > row.len THEN row
  ELSE
    LET grow == row.len + 1 >= row.allocated_size
        size == IF grow THEN row.len + 16 ELSE row.allocated_size
        data0 == Behind(IF grow THEN realloc(row.data, size) ELSE row.data,
                        row.len + 2)
        data1 == memmove(data0, index + 1, index, row.len - index + 1)
    IN [row EXCEPT !.allocated_size = size,
                   !.data = Put(data1, index, c),
                   !.len = row.len + 1]

\* buffer_row_replace_line(row, new_line) of buffer.c: the block is
\* reallocated to len + 1 bytes and allocated_size is left as it was.
buffer_c_row_replace_line(row, new_line) ==
  LET len == Len(new_line)
  IN [row EXCEPT !.len = len,
                 !.data = memcpy(realloc(row.data, len + 1), 0,
                                 new_line \o <<NUL>>, len + 1)]

\* buffer_row_remove_char(row, index) of buffer.c.
buffer_c_row_remove_char(row, index) ==
  IF index < 0 \/ index >= row.len THEN row
  ELSE [row EXCEPT !.data = Put(memmove(row.data, index, index + 1,
                                        row.len - index),
                                row.len - 1, NUL),
                   !.len = row.len - 1]

\* buffer_row_append_char(row, c) of buffer.c: the character inserted is 0.
buffer_c_row_append_char(row, c) ==
  buffer_c_row_insert_char(row, row.len, NUL)

\* buffer_row_insert_str of buffer.c writes behind the block of row->data:
\* its memmove reaches the cell len + str_len.
buffer_c_row_insert_str_overruns(row, index, str) ==
  /\ index >= 0
  /\ index <= row.len
  /\ Len(str) > 0
  /\ row.len + Len(str) < row.allocated_size
  /\ row.len + Len(str) + 1 > Len(row.data)

\* buffer_row_insert_str(row, index, str) of buffer.c.
buffer_c_row_insert_str(row, index, str) ==
  IF index < 0 \/ index > row.len \/ Len(str) = 0 THEN row
  ELSE
    LET str_len == Len(str)
        grow == row.len + str_len >= row.allocated_size
        size == IF grow THEN row.len + str_len + 16 ELSE row.allocated_size
        data0 == Behind(IF grow THEN realloc(row.data, size) ELSE row.data,
                        row.len + str_len + 1)
        data1 == memmove(data0, index + str_len, index, row.len - index + 1)
    IN [row EXCEPT !.allocated_size = size,
                   !.data = memcpy(data1, index, str, str_len),
                   !.len = row.len + str_len]

\* buffer_row_trim(row, start_index) of buffer.c.
buffer_c_row_trim(row, start_index) ==
  IF start_index < 0 \/ start_index >= row.len THEN row
  ELSE [row EXCEPT !.len = start_index,
                   !.data = Put(row.data, start_index, NUL)]

(***************************************************************************)
(* The row list (buffer.c)                                                 *)
(***************************************************************************)
MaxRows == 3

\* malloc(sizeof(BufferRow)): an unused row identifier.
NewId(rs) == CHOOSE id \in 1..(Cardinality(DOMAIN rs) + 1) :
               /\ id \notin DOMAIN rs
               /\ \A j \in 1..(id - 1) : j \in DOMAIN rs

\* The heap with row id added or replaced.
WithRow(rs, id, row) ==
  [k \in DOMAIN rs \cup {id} |-> IF k = id THEN row ELSE rs[k]]

NoRows == [k \in {} |-> 0]

\* buffer_alloc(): filename is not initialised.
buffer_alloc ==
  [head |-> NULL, tail |-> NULL, current_row |-> NULL, number_of_rows |-> 0,
   start_line |-> 0, start_column |-> 0, filename |-> <<Uninit>>]

\* buffer_append_list_row(buffer, new_row), new_row being rs[id].
buffer_append_list_row(rs, b, id) ==
  IF b.tail = NULL
    THEN [rows |-> [rs EXCEPT ![id].next = NULL, ![id].prev = NULL],
          buffer |-> [b EXCEPT !.head = id, !.tail = id, !.current_row = id,
                               !.number_of_rows = 1]]
    ELSE [rows |-> [rs EXCEPT ![b.tail].next = id, ![id].prev = b.tail,
                              ![id].next = NULL],
          buffer |-> [b EXCEPT !.tail = id,
                               !.number_of_rows = b.number_of_rows + 1]]

\* Whether buffer_append_line strips the last character.  For an empty line
\* it reads data[-1], outside the storage: oob_eol is what that read finds.
StripsLast(line, oob_eol) ==
  IF Len(line) > 0
    THEN line[Len(line)] = CH_LF \/ line[Len(line)] = CH_CR
    ELSE oob_eol

\* buffer_append_line(buffer, line); line is a C string given by its
\* characters.
buffer_append_line(rs, b, line, oob_eol) ==
  LET id == NewId(rs)
      len == Len(line)
      s == buffer_append_list_row(
             WithRow(rs, id, NewRow(line \o <<NUL>>, len, len + 1)), b, id)
      row == s.rows[id]
  IN IF StripsLast(line, oob_eol)
       THEN [rows |-> [s.rows EXCEPT ![id] =
                        [row EXCEPT !.data = IF len > 0 THEN Put(row.data, len - 1, NUL)
                                             ELSE row.data,
                                    !.len = len - 1]],
             buffer |-> s.buffer]
       ELSE s

\* Appending a row as the revision with the highlighter does: the row is
\* highlighted once it is linked.
append_row(rs, b, line, oob_eol) ==
  LET s == buffer_append_line(rs, b, line, oob_eol)
  IN [rows |-> buffer_row_highlight_line(s.rows, s.buffer.tail),
      buffer |-> s.buffer]

buffer_get_first_row(b) == b.head

\* The row reached from id by n steps along next (NULL once the list ends).
RECURSIVE Walk(_, _, _)
Walk(rs, id, n) ==
  IF n <= 0 \/ id = NULL THEN id ELSE Walk(rs, rs[id].next, n - 1)

buffer_get_row(rs, b, index) ==
  IF index < 0 \/ index >= b.number_of_rows THEN NULL
  ELSE Walk(rs, b.head, index)

\* buffer_insert_row_at dereferences buffer->head when the anchor is NULL.
buffer_insert_row_at_faults(b, row) == row = NULL /\ b.head = NULL

\* buffer_insert_row_at(buffer, row): a new empty row after row, or at the
\* head when row is NULL.
buffer_insert_row_at(rs, b, row) ==
  LET id == NewId(rs)
      new == NewRow(<<NUL>> \o Fresh(15), 0, 16)
      rs0 == WithRow(rs, id, new)
      rs1 == IF row = NULL
               THEN [rs0 EXCEPT ![id].prev = NULL, ![id].next = b.head,
                                ![b.head].prev = id]
             ELSE IF rs[row].next = NULL
               THEN [rs0 EXCEPT ![row].next = id, ![id].prev = row,
                                ![id].next = NULL]
             ELSE [rs0 EXCEPT ![id].next = rs[row].next,
                              ![rs[row].next].prev = id,
                              ![id].prev = row, ![row].next = id]
  IN [rows |-> rs1,
      buffer |-> [b EXCEPT !.head = IF row = NULL THEN id ELSE @,
                           !.number_of_rows = b.number_of_rows + 1]]

\* The rows and the row list exercised on their own, without an Editor.
NoEditor == [state |-> "none"]

(***************************************************************************)
(* SpecRow: one row, built by buffer_append_line from an input line, and   *)
(* the row functions applied to it.  The lines are the non-empty ones: the *)
(* callers (getline, the tests, editor_create_new_file) pass no empty line.*)
(***************************************************************************)
MaxBodyLen == 1
MaxRowLen == 3
MaxRemove == 2

\* The sequences over chars of length 0 .. n.
SeqsUpTo(chars, n) == UNION {[1..k -> chars] : k \in 0..n}

InsertChars == {CH_a, CH_SPACE}

\* The ways a line that getline or a caller hands over ends.
Terminators == {<<>>, <<CH_LF>>, <<CH_CR>>, <<CH_CR, CH_LF>>}

\* The input lines: a body of at most MaxBodyLen characters and a terminator,
\* the empty line left out.
InputLines ==
  {body \o t : body \in SeqsUpTo(InsertChars, MaxBodyLen), t \in Terminators}
    \ {<<>>}

\* The row the row functions act on.
TheRow == rows[buffer.head]
\* A query leaves the row as it is: what can follow it is explored from the
\* state it was asked in, and the state that records its answer is left alone.
\* Nothing follows a faulting access, and a row that an insert out of range
\* was tried on is not taken further.
Settled ==
  ~fault /\ last.op \notin {"next_word", "prev_word", "insert_out_of_range"}

InitRow ==
  /\ kw2_past_end = "null"
  /\ past_storage = "other"
  /\ fresh_byte = EHighlightToken_Normal
  /\ revision \in {"buffer.c", "buffer_row.c"}
  /\ fault = FALSE
  /\ editor = NoEditor
  /\ pc = "library"
  /\ \E line \in InputLines :
       \E oob_eol \in {FALSE} :
         LET s == IF revision = "buffer.c"
                    THEN buffer_append_line(NoRows, buffer_alloc, line, oob_eol)
                    ELSE append_row(NoRows, buffer_alloc, line, oob_eol)
         IN /\ rows = s.rows
            /\ buffer = s.buffer
            /\ last = [op |-> "append_line", line |-> line]

\* A write behind the block of a row is stopped by a build that checks the
\* heap and lands in the memory behind the block in one that does not.
OverrunOutcomes(overruns) == IF overruns THEN {TRUE, FALSE} ELSE {FALSE}

\* buffer_row_insert_char(row, index, c) of buffer_row.c.
RowInsertChar ==
  /\ revision = "buffer_row.c"
  /\ Settled
  /\ TheRow.len >= 0
  /\ TheRow.len < MaxRowLen
  /\ \E index \in 0..TheRow.len : \E c \in InsertChars :
       /\ rows' = buffer_row_insert_char(rows, buffer.head, index, c)
       /\ last' = [op |-> "insert_char", index |-> index, c |-> c,
                   before |-> TheRow]
  /\ UNCHANGED <<buffer, kw2_past_end, past_storage, fresh_byte, revision, fault, editor, pc>>

\* buffer_row_insert_char(row, index, c) of buffer.c.
BufferCInsertChar ==
  /\ revision = "buffer.c"
  /\ Settled
  /\ TheRow.len >= 0
  /\ TheRow.len < MaxRowLen
  /\ \E index \in 0..TheRow.len : \E c \in InsertChars :
       /\ rows' = [rows EXCEPT ![buffer.head] =
                     buffer_c_row_insert_char(TheRow, index, c)]
       /\ fault' \in OverrunOutcomes(
                       buffer_c_row_insert_char_overruns(TheRow, index))
       /\ last' = [op |-> "insert_char", index |-> index, c |-> c,
                   before |-> TheRow]
  /\ UNCHANGED <<buffer, kw2_past_end, past_storage, fresh_byte, revision, editor, pc>>

\* buffer_row_insert_char(row, index, c) of buffer_row.c with an index out
\* of 0 .. len: one below, one above, two above.
RowInsertCharOutOfRange ==
  /\ revision = "buffer_row.c"
  /\ Settled
  /\ TheRow.len >= 0
  /\ TheRow.len < MaxRowLen
  /\ \E index \in {-1, TheRow.len + 1, TheRow.len + 2} : \E c \in InsertChars :
       /\ rows' = buffer_row_insert_char(rows, buffer.head, index, c)
       /\ fault' = buffer_row_insert_chars_faults(rows, buffer.head, index, 1)
       /\ last' = [op |-> "insert_out_of_range", index |-> index, c |-> c,
                   before |-> TheRow]
  /\ UNCHANGED <<buffer, kw2_past_end, past_storage, fresh_byte, revision, editor, pc>>

\* buffer_row_insert_char(row, index, c) of buffer.c with an index out of
\* 0 .. len.
BufferCInsertCharOutOfRange ==
  /\ revision = "buffer.c"
  /\ Settled
  /\ TheRow.len >= 0
  /\ \E index \in {-1, TheRow.len + 1, TheRow.len + 2} : \E c \in InsertChars :
       /\ rows' = [rows EXCEPT ![buffer.head] =
                     buffer_c_row_insert_char(TheRow, index, c)]
       /\ last' = [op |-> "insert_out_of_range", before |-> TheRow]
  /\ UNCHANGED <<buffer, kw2_past_end, past_storage, fresh_byte, revision, fault, editor, pc>>

\* buffer_row_remove_char(row, index) of buffer.c.
BufferCRemoveChar ==
  /\ revision = "buffer.c"
  /\ Settled
  /\ \E index \in -1..TheRow.len :
       /\ rows' = [rows EXCEPT ![buffer.head] =
                     buffer_c_row_remove_char(TheRow, index)]
       /\ last' = [op |-> "remove_char"]
  /\ UNCHANGED <<buffer, kw2_past_end, past_storage, fresh_byte, revision, fault, editor, pc>>

\* buffer_row_append_char(row, c) of buffer.c.
BufferCAppendChar ==
  /\ revision = "buffer.c"
  /\ Settled
  /\ TheRow.len < MaxRowLen
  /\ \E c \in InsertChars :
       /\ rows' = [rows EXCEPT ![buffer.head] =
                     buffer_c_row_append_char(TheRow, c)]
       /\ fault' \in OverrunOutcomes(
                       buffer_c_row_insert_char_overruns(TheRow, TheRow.len))
       /\ last' = [op |-> "append_char"]
  /\ UNCHANGED <<buffer, kw2_past_end, past_storage, fresh_byte, revision, editor, pc>>

\* The strings buffer_row_insert_str is given.
InsertStrs == {<<>>, <<CH_a, CH_SPACE>>}

\* buffer_row_insert_str(row, index, str) of buffer.c.
BufferCInsertStr ==
  /\ revision = "buffer.c"
  /\ Settled
  /\ TheRow.len < MaxRowLen
  /\ \E index \in -1..(TheRow.len + 1) : \E str \in InsertStrs :
       /\ rows' = [rows EXCEPT ![buffer.head] =
                     buffer_c_row_insert_str(TheRow, index, str)]
       /\ fault' \in OverrunOutcomes(
                       buffer_c_row_insert_str_overruns(TheRow, index, str))
       /\ last' = [op |-> "insert_str"]
  /\ UNCHANGED <<buffer, kw2_past_end, past_storage, fresh_byte, revision, editor, pc>>

\* buffer_row_trim(row, start_index) of buffer.c.
BufferCTrim ==
  /\ revision = "buffer.c"
  /\ Settled
  /\ \E start_index \in -1..TheRow.len :
       /\ rows' = [rows EXCEPT ![buffer.head] =
                     buffer_c_row_trim(TheRow, start_index)]
       /\ last' = [op |-> "trim"]
  /\ UNCHANGED <<buffer, kw2_past_end, past_storage, fresh_byte, revision, fault, editor, pc>>

\* buffer_row_remove_chars(row, index, number), and buffer_row_remove_char
\* for number = 1.
RowRemoveChars ==
  /\ revision = "buffer_row.c"
  /\ Settled
  /\ TheRow.len >= 0
  /\ \E index \in -1..TheRow.len : \E number \in 1..MaxRemove :
       /\ rows' = buffer_row_remove_chars(rows, buffer.head, index, number)
       /\ last' = [op |-> "remove_chars", index |-> index, number |-> number,
                   ret |-> buffer_row_remove_chars_ret(rows, buffer.head, index,
                                                       number),
                   ret_char |-> buffer_row_remove_char_ret(rows, buffer.head,
                                                           index),
                   before |-> TheRow]
  /\ UNCHANGED <<buffer, kw2_past_end, past_storage, fresh_byte, revision, fault, editor, pc>>

RowNextWord ==
  /\ revision = "buffer_row.c"
  /\ Settled
  /\ TheRow.len >= 0
  /\ \E start_index \in -1..TheRow.len :
       last' = [op |-> "next_word", start_index |-> start_index,
                ret |-> buffer_row_get_offset_to_next_word(rows, buffer.head,
                                                           start_index)]
  /\ UNCHANGED <<rows, buffer, kw2_past_end, past_storage, fresh_byte, revision, fault, editor, pc>>

RowPrevWord ==
  /\ revision = "buffer_row.c"
  /\ Settled
  /\ TheRow.len >= 0
  /\ \E start_index \in -1..(TheRow.len + 1) :
       last' = [op |-> "prev_word", start_index |-> start_index,
                ret |-> buffer_row_get_offset_to_prev_word(rows, buffer.head,
                                                           start_index)]
  /\ UNCHANGED <<rows, buffer, kw2_past_end, past_storage, fresh_byte, revision, fault, editor, pc>>

RowTrim ==
  /\ revision = "buffer_row.c"
  /\ Settled
  /\ TheRow.len >= 0
  /\ \E start_index \in -1..TheRow.len :
       /\ rows' = buffer_row_trim(rows, buffer.head, start_index)
       /\ last' = [op |-> "trim", start_index |-> start_index]
  /\ UNCHANGED <<buffer, kw2_past_end, past_storage, fresh_byte, revision, fault, editor, pc>>

\* The lines buffer_row_replace_line is given: the "\n" of the dd command,
\* the empty string and a line of two characters.
ReplaceLines == {<<CH_LF>>, <<>>, <<CH_a, CH_SPACE>>}

\* buffer_row_replace_line(row, new_line).
RowReplaceLine ==
  /\ revision = "buffer_row.c"
  /\ Settled
  /\ \E new_line \in ReplaceLines :
       /\ rows' = buffer_row_replace_line(rows, buffer.head, new_line)
       /\ last' = [op |-> "replace_line", new_line |-> new_line]
  /\ UNCHANGED <<buffer, kw2_past_end, past_storage, fresh_byte, revision, fault, editor, pc>>

\* buffer_row_replace_line(row, new_line) of buffer.c.
BufferCReplaceLine ==
  /\ revision = "buffer.c"
  /\ Settled
  /\ \E new_line \in ReplaceLines :
       /\ rows' = [rows EXCEPT ![buffer.head] =
                     buffer_c_row_replace_line(TheRow, new_line)]
       /\ last' = [op |-> "replace_line", new_line |-> new_line]
  /\ UNCHANGED <<buffer, kw2_past_end, past_storage, fresh_byte, revision, fault, editor, pc>>

\* The column ranges and tokens buffer_row_set_highlight is given: the first
\* column, the first two, an empty range, a start below 0 and an end before
\* the start; a tag with a style and one without.
SetHighlightRanges == {<<0, 1>>, <<1, 0>>}
SetHighlightTokens == {EHighlightToken_Keyword, EHighlightToken_Symbol2}

\* buffer_row_set_highlight(row, column_start, column_end, token).
RowSetHighlight ==
  /\ revision = "buffer_row.c"
  /\ Settled
  /\ last.op # "set_highlight"
  /\ \E range \in SetHighlightRanges : \E token \in SetHighlightTokens :
       rows' = buffer_row_set_highlight(rows, buffer.head, range[1], range[2],
                                        token)
  /\ last' = [op |-> "set_highlight"]
  /\ UNCHANGED <<buffer, kw2_past_end, past_storage, fresh_byte, revision, fault, editor, pc>>

\* editor_draw_buffers paints a dirty row, which faults when it looks up the
\* style of a tag that has none (a tag that was never written is read as
\* fresh_byte), and clears the dirty flag of the row it has painted.
RowDrawn ==
  /\ revision = "buffer_row.c"
  /\ Settled
  /\ TheRow.dirty
  /\ rows' = [rows EXCEPT ![buffer.head].dirty = FALSE]
  /\ fault' = DrawnFaults(rows, buffer)
  /\ last' = [op |-> "drawn"]
  /\ UNCHANGED <<buffer, kw2_past_end, past_storage, fresh_byte, revision, editor, pc>>

NextRow ==
  \/ RowInsertChar
  \/ BufferCInsertChar
  \/ RowInsertCharOutOfRange
  \/ BufferCInsertCharOutOfRange
  \/ BufferCRemoveChar
  \/ BufferCAppendChar
  \/ BufferCInsertStr
  \/ BufferCTrim
  \/ BufferCReplaceLine
  \/ RowRemoveChars
  \/ RowNextWord
  \/ RowPrevWord
  \/ RowTrim
  \/ RowReplaceLine
  \/ RowSetHighlight
  \/ RowDrawn

SpecRow == InitRow /\ [][NextRow]_vars

(***************************************************************************)
(* Claims about rows                                                       *)
(***************************************************************************)
\* The number of characters of the line terminator that ends line: 2 for
\* "\r\n", 1 for a single "\n" or "\r", 0 otherwise.
TerminatorLen(line) ==
  LET n == Len(line) IN
  IF n >= 2 /\ line[n - 1] = CH_CR /\ line[n] = CH_LF THEN 2
  ELSE IF n >= 1 /\ (line[n] = CH_LF \/ line[n] = CH_CR) THEN 1
  ELSE 0

\* C1: buffer_append_line stores the line with exactly its trailing line
\* terminator ("\n", "\r" or "\r\n") removed: len is the input length minus
\* the terminator length and the content is the line without it.
C1_AppendStripsTerminator ==
  last.op = "append_line" =>
    /\ TheRow.len = Len(last.line) - TerminatorLen(last.line)
    /\ Content(TheRow) = SubSeq(last.line, 1, Len(last.line) - TerminatorLen(last.line))

\* Whether a word begins at index j of content s.
IsSpace(c) == c \in whitespace
WordStartsAt(s, j) ==
  /\ j >= 0 /\ j < Len(s)
  /\ ~IsSpace(s[j + 1])
  /\ (j = 0 \/ IsSpace(s[j]))

\* C2: for 0 <= i < len, buffer_row_get_offset_to_next_word returns d >= 0
\* with i + d the start of the first word that begins after i, or len when
\* no word begins after i.
C2_NextWord ==
  (last.op = "next_word" /\ last.start_index >= 0
     /\ last.start_index < TheRow.len) =>
    LET s == Content(TheRow)
        i == last.start_index
        after == {j \in (i + 1)..(Len(s) - 1) : WordStartsAt(s, j)}
        target == IF after = {} THEN Len(s)
                  ELSE CHOOSE j \in after : \A k \in after : j <= k
    IN last.ret >= 0 /\ i + last.ret = target

\* C3: for 0 <= i <= len, buffer_row_get_offset_to_prev_word returns d <= 0
\* with i + d the start of the nearest word that begins before i, and 0 when
\* no word begins before i.
C3_PrevWord ==
  (last.op = "prev_word" /\ last.start_index >= 0
     /\ last.start_index <= TheRow.len) =>
    LET s == Content(TheRow)
        i == last.start_index
        before == {j \in 0..(i - 1) : WordStartsAt(s, j)}
    IN IF before = {} THEN last.ret = 0
       ELSE /\ last.ret <= 0
            /\ i + last.ret = (CHOOSE j \in before : \A k \in before : j >= k)

Min(a, b) == IF a < b THEN a ELSE b

\* C4: for 0 <= i < len and n >= 1, buffer_row_remove_chars removes exactly
\* m = min(n, len - i) characters, keeps the NUL at len and returns m
\* (buffer_row_remove_char: n = 1); for i out of range it returns 0 and
\* leaves content, len and dirty unchanged.
C4_RemoveChars ==
  last.op = "remove_chars" =>
    LET s == Content(last.before)
        i == last.index
        m == Min(last.number, Len(s) - i)
    IN IF i >= 0 /\ i < Len(s)
         THEN /\ Content(TheRow) = SubSeq(s, 1, i) \o SubSeq(s, i + m + 1, Len(s))
              /\ TheRow.len = Len(s) - m
              /\ At(TheRow.data, TheRow.len) = NUL
              /\ last.ret = m
              /\ last.ret_char = TRUE
         ELSE /\ last.ret = 0
              /\ last.ret_char = FALSE
              /\ TheRow.data = last.before.data
              /\ TheRow.len = last.before.len
              /\ TheRow.dirty = last.before.dirty

\* A removal that was clamped: more characters asked for than the row holds
\* after the index.
C4_Witness ==
  /\ last.op = "remove_chars"
  /\ last.index > 0
  /\ last.index < last.before.len
  /\ last.number > last.before.len - last.index
  /\ TheRow.len = last.index

\* C5: for 0 <= i <= len, buffer_row_insert_char yields s[0..i) + c + s[i..]
\* with len increased by exactly 1, writing inside the storage of the row,
\* also when the storage grows and at i = len, in either revision.
C5_InsertChar ==
  last.op = "insert_char" =>
    LET s == Content(last.before)
        i == last.index
    IN /\ ~fault
       /\ Content(TheRow) = SubSeq(s, 1, i) \o <<last.c>> \o SubSeq(s, i + 1, Len(s))
       /\ TheRow.len = last.before.len + 1

\* C16: inserting into a row at an index below 0 or above len is a no-op:
\* content, len and allocated_size of the row are unchanged and no memory
\* outside the row's storage is read or written.
C16_InsertOutOfRange ==
  last.op = "insert_out_of_range" =>
    /\ ~fault
    /\ TheRow.data = last.before.data
    /\ TheRow.len = last.before.len
    /\ TheRow.allocated_size = last.before.allocated_size

(***************************************************************************)
(* The row list functions editor.c calls that buffer.c does not hold, as   *)
(* the Document contract describes them.                                   *)
(***************************************************************************)
buffer_get_current_line(b) == b.current_row
buffer_get_number_of_lines(b) == b.number_of_rows
buffer_get_filename(b) == b.filename

buffer_current_is_first_row(rs, b) ==
  b.current_row = NULL \/ rs[b.current_row].prev = NULL

buffer_current_is_last_row(rs, b) ==
  b.current_row = NULL \/ rs[b.current_row].next = NULL

\* The row n steps after (n > 0) or before (n < 0) row id, stopping at the
\* end of the list.
RECURSIVE ScrollFrom(_, _, _)
ScrollFrom(rs, id, n) ==
  IF id = NULL \/ n = 0 THEN id
  ELSE IF n > 0
    THEN IF rs[id].next = NULL THEN id ELSE ScrollFrom(rs, rs[id].next, n - 1)
    ELSE IF rs[id].prev = NULL THEN id ELSE ScrollFrom(rs, rs[id].prev, n + 1)

\* buffer_scroll_rows(buffer, n): current_row moves n rows.
buffer_scroll_rows(rs, b, n) ==
  [b EXCEPT !.current_row = ScrollFrom(rs, b.current_row, n)]

buffer_scroll_to_top(b) == [b EXCEPT !.current_row = b.head]

\* Row id unlinked from the list and freed.
Unlink(rs, b, id) ==
  LET row == rs[id]
  IN [rows |-> [k \in DOMAIN rs \ {id} |->
                  [rs[k] EXCEPT !.next = IF k = row.prev THEN row.next ELSE @,
                                !.prev = IF k = row.next THEN row.prev ELSE @]],
      buffer |-> [b EXCEPT !.head = IF @ = id THEN row.next ELSE @,
                           !.tail = IF @ = id THEN row.prev ELSE @,
                           !.number_of_rows = @ - 1]]

\* A new empty row linked right after row id, head and tail kept up to date.
LinkAfter(rs, b, id) ==
  LET new == NewId(rs)
      nxt == rs[id].next
      rs0 == WithRow(rs, new, [NewRow(<<NUL>> \o Fresh(15), 0, 16)
                                 EXCEPT !.prev = id, !.next = nxt])
  IN [rows |-> [k \in DOMAIN rs0 |->
                  IF k = id THEN [rs0[k] EXCEPT !.next = new]
                  ELSE IF k = nxt THEN [rs0[k] EXCEPT !.prev = new]
                  ELSE rs0[k]],
      buffer |-> [b EXCEPT !.tail = IF nxt = NULL THEN new ELSE @,
                           !.number_of_rows = @ + 1],
      new |-> new]

\* buffer_remove_current_row(buffer): the offset it returns (+1: the next
\* row became current, -1: the previous one, 0: nothing was unlinked).
buffer_remove_current_row_ret(rs, b) ==
  IF b.current_row = NULL THEN 0
  ELSE IF rs[b.current_row].next # NULL THEN 1
  ELSE IF rs[b.current_row].prev # NULL THEN -1
  ELSE 0

\* buffer_remove_current_row(buffer): on a document of one row the row is
\* cleared and stays.
buffer_remove_current_row(rs, b) ==
  LET cur == b.current_row
      ret == buffer_remove_current_row_ret(rs, b)
  IN IF cur = NULL THEN [rows |-> rs, buffer |-> b]
     ELSE IF ret = 0
       THEN [rows |-> buffer_row_replace_line(rs, cur, <<>>), buffer |-> b]
     ELSE LET u == Unlink(rs, b, cur)
          IN [rows |-> u.rows,
              buffer |-> [u.buffer EXCEPT !.current_row =
                            IF ret = 1 THEN rs[cur].next ELSE rs[cur].prev]]

\* Whether buffer_break_current_line(buffer, at_column) splits the row.
buffer_break_current_line_splits(rs, b, at_column) ==
  /\ b.current_row # NULL
  /\ at_column >= 0
  /\ at_column <= rs[b.current_row].len

\* buffer_break_current_line(buffer, at_column): a new row right after
\* current_row takes the suffix from at_column on, current_row keeps the
\* prefix.
buffer_break_current_line(rs, b, at_column) ==
  IF ~buffer_break_current_line_splits(rs, b, at_column)
    THEN [rows |-> rs, buffer |-> b]
  ELSE
    LET cur == b.current_row
        suffix == SubSeq(rs[cur].data, at_column + 1, rs[cur].len)
        l == LinkAfter(rs, b, cur)
        rs1 == buffer_row_append_str(l.rows, l.new, suffix, Len(suffix))
    IN [rows |-> buffer_row_trim(rs1, cur, at_column), buffer |-> l.buffer]

\* buffer_join_current_line_with_previous(buffer): the number of characters
\* appended to the previous row, 0 when there is none.
buffer_join_current_line_with_previous_ret(rs, b) ==
  IF b.current_row = NULL \/ rs[b.current_row].prev = NULL THEN 0
  ELSE rs[b.current_row].len

buffer_join_current_line_with_previous(rs, b) ==
  IF b.current_row = NULL \/ rs[b.current_row].prev = NULL
    THEN [rows |-> rs, buffer |-> b]
  ELSE
    LET cur == b.current_row
        prv == rs[cur].prev
        rs1 == buffer_row_append_str(rs, prv, Content(rs[cur]), rs[cur].len)
        u == Unlink(rs1, b, cur)
    IN [rows |-> u.rows, buffer |-> [u.buffer EXCEPT !.current_row = prv]]

(***************************************************************************)
(* SpecDoc: a document initialised with one line, and the document         *)
(* mutations applied to it.                                                *)
(***************************************************************************)
DocLines == {<<CH_a, CH_LF>>, <<CH_LF>>}

MaxAdded == 4

\* The rows allocated so far leave room for one more, and so does the count
\* of the rows added.
CanAllocate ==
  /\ Cardinality(DOMAIN rows) < MaxRows
  /\ last.added < MaxAdded

InitDoc ==
  /\ kw2_past_end = "null"
  /\ past_storage = "other"
  /\ fresh_byte = EHighlightToken_Normal
  /\ revision = "buffer_row.c"
  /\ fault = FALSE
  /\ editor = NoEditor
  /\ pc = "library"
  /\ \E line \in DocLines :
       LET s == append_row(NoRows, buffer_alloc, line, FALSE)
       IN /\ rows = s.rows
          /\ buffer = s.buffer
          /\ last = [op |-> "append_line", added |-> 1, removed |-> 0]

DocAppendLine ==
  /\ pc = "library"
  /\ CanAllocate
  /\ \E line \in DocLines :
       LET s == append_row(rows, buffer, line, FALSE)
       IN /\ rows' = s.rows
          /\ buffer' = s.buffer
  /\ last' = [op |-> "append_line", added |-> last.added + 1,
              removed |-> last.removed]
  /\ UNCHANGED <<kw2_past_end, past_storage, fresh_byte, revision, fault, editor, pc>>

\* buffer_insert_row_at(buffer, row) with row the current row, the last
\* row of the list, or NULL.
DocInsertRowAt ==
  /\ pc = "library"
  /\ CanAllocate
  /\ \E row \in {NULL, buffer.current_row, ScrollFrom(rows, buffer.head, MaxRows)} :
       /\ ~buffer_insert_row_at_faults(buffer, row)
       /\ LET s == buffer_insert_row_at(rows, buffer, row)
          IN /\ rows' = s.rows
             /\ buffer' = s.buffer
       /\ last' = [op |-> "insert_row_at", added |-> last.added + 1,
                   removed |-> last.removed, row |-> row,
                   new |-> NewId(rows),
                   at_end |-> row # NULL /\ rows[row].next = NULL]
  /\ UNCHANGED <<kw2_past_end, past_storage, fresh_byte, revision, fault, editor, pc>>

DocRemoveCurrentRow ==
  /\ pc = "library"
  /\ LET s == buffer_remove_current_row(rows, buffer)
         ret == buffer_remove_current_row_ret(rows, buffer)
     IN /\ rows' = s.rows
        /\ buffer' = s.buffer
        /\ last' = [op |-> "remove_current_row", added |-> last.added,
                    removed |-> last.removed + (IF ret # 0 THEN 1 ELSE 0),
                    ret |-> ret]
  /\ UNCHANGED <<kw2_past_end, past_storage, fresh_byte, revision, fault, editor, pc>>

DocBreakCurrentLine ==
  /\ pc = "library"
  /\ CanAllocate
  /\ buffer.current_row # NULL
  /\ \E at_column \in 0..rows[buffer.current_row].len :
       LET s == buffer_break_current_line(rows, buffer, at_column)
       IN /\ rows' = s.rows
          /\ buffer' = s.buffer
          /\ last' = [op |-> "break_current_line", added |-> last.added + 1,
                      removed |-> last.removed, at_column |-> at_column]
  /\ UNCHANGED <<kw2_past_end, past_storage, fresh_byte, revision, fault, editor, pc>>

DocJoinWithPrevious ==
  /\ pc = "library"
  /\ buffer.current_row # NULL
  /\ LET s == buffer_join_current_line_with_previous(rows, buffer)
         joined == rows[buffer.current_row].prev # NULL
     IN /\ rows' = s.rows
        /\ buffer' = s.buffer
        /\ last' = [op |-> "join", added |-> last.added,
                    removed |-> last.removed + (IF joined THEN 1 ELSE 0)]
  /\ UNCHANGED <<kw2_past_end, past_storage, fresh_byte, revision, fault, editor, pc>>

DocScrollRows ==
  /\ pc = "library"
  /\ \E n \in {-1, 1} :
       /\ buffer' = buffer_scroll_rows(rows, buffer, n)
       /\ buffer' # buffer
       /\ last' = [op |-> "scroll_rows", added |-> last.added,
                   removed |-> last.removed, n |-> n]
  /\ UNCHANGED <<rows, kw2_past_end, past_storage, fresh_byte, revision, fault, editor, pc>>

NextDoc ==
  \/ DocAppendLine
  \/ DocInsertRowAt
  \/ DocRemoveCurrentRow
  \/ DocBreakCurrentLine
  \/ DocJoinWithPrevious
  \/ DocScrollRows

SpecDoc == InitDoc /\ [][NextDoc]_vars

(***************************************************************************)
(* Claims about the row list                                               *)
(***************************************************************************)
\* The number of rows reached from id by following next.
RECURSIVE ReachableRows(_, _, _)
ReachableRows(rs, id, fuel) ==
  IF id = NULL \/ fuel = 0 THEN 0 ELSE 1 + ReachableRows(rs, rs[id].next, fuel - 1)

\* C6: after any sequence of document mutations on an initialised document,
\* number_of_rows equals the number of rows reachable from head along next,
\* equals the rows added minus the rows removed, and is at least 1.
C6_RowCount ==
  /\ buffer.number_of_rows = ReachableRows(rows, buffer.head, MaxRows + 1)
  /\ buffer.number_of_rows = last.added - last.removed
  /\ buffer.number_of_rows >= 1

(***************************************************************************)
(* SpecHL: two rows of a document, edited and highlighted.                 *)
(***************************************************************************)
MaxHlLen == 2
MaxEdits == 1

HlChars == {CH_SLASH, CH_STAR, CH_DQUOTE, CH_BACKSLASH, CH_a}

\* The rows of the document in list order.
RECURSIVE RowList(_, _, _)
RowList(rs, id, fuel) ==
  IF id = NULL \/ fuel = 0 THEN <<>>
  ELSE <<id>> \o RowList(rs, rs[id].next, fuel - 1)

\* The tags of the characters of a row.
Tags(row) == SubSeq(row.highlight_data, 1, row.len)

\* The state a row ends in: comment open, and the delimiter of the open string.
ExitState(row) == <<row.highlight_comment_open, row.highlight_string_open>>

InitHL ==
  /\ kw2_past_end = "null"
  /\ past_storage = "other"
  /\ fresh_byte \in FreshByteOutcomes
  /\ revision = "buffer_row.c"
  /\ fault = FALSE
  /\ editor = NoEditor
  /\ pc = "library"
  /\ \E first \in SeqsUpTo(HlChars, MaxHlLen) :
       \E second \in SeqsUpTo(HlChars, MaxHlLen) :
         \E s1 \in {append_row(NoRows, buffer_alloc, first \o <<CH_LF>>, FALSE)} :
           \E s2 \in {append_row(s1.rows, s1.buffer, second \o <<CH_LF>>, FALSE)} :
             /\ rows = s2.rows
             /\ buffer = s2.buffer
             /\ last = [op |-> "append_line", k |-> s2.buffer.tail, pass |-> 0,
                        first |-> s2.rows, edits |-> 0]

\* buffer_row_insert_char(row, index, c) on a row of the document.
HlInsertChar ==
  /\ pc = "library"
  /\ ~fault
  /\ last.edits < MaxEdits
  /\ \E k \in DOMAIN rows :
       /\ rows[k].len <= MaxHlLen
       /\ \E index \in 0..rows[k].len : \E c \in HlChars :
            /\ rows' = buffer_row_insert_char(rows, k, index, c)
            /\ last' = [op |-> "insert_char", k |-> k, pass |-> 0,
                        first |-> rows, edits |-> last.edits + 1]
  /\ UNCHANGED <<buffer, kw2_past_end, past_storage, fresh_byte, revision, fault, editor, pc>>

\* buffer_row_remove_char(row, index) on a row of the document.
HlRemoveChar ==
  /\ pc = "library"
  /\ ~fault
  /\ last.edits < MaxEdits
  /\ \E k \in DOMAIN rows :
       \E index \in 0..(rows[k].len - 1) :
         /\ rows' = buffer_row_remove_char(rows, k, index)
         /\ last' = [op |-> "remove_char", k |-> k, pass |-> 0, first |-> rows,
                     edits |-> last.edits + 1]
  /\ UNCHANGED <<buffer, kw2_past_end, past_storage, fresh_byte, revision, fault, editor, pc>>

\* buffer_row_highlight_line(row) on a row of the document.  The pass is the
\* second one when the last thing done to the document was the first pass on
\* the same row, painted since.
HlHighlight ==
  /\ pc = "library"
  /\ ~fault
  /\ \E k \in DOMAIN rows :
       /\ rows' = buffer_row_highlight_line(rows, k)
       /\ last' = [op |-> "highlight", k |-> k,
                   pass |-> IF last.op = "drawn" /\ last.k = k /\ last.pass = 1
                              THEN 2 ELSE 1,
                   first |-> rows, edits |-> last.edits]
  /\ UNCHANGED <<buffer, kw2_past_end, past_storage, fresh_byte, revision, fault, editor, pc>>

\* buffer_row_set_highlight(row, column_start, column_end, token) on a row
\* of the document.
HlSetHighlight ==
  /\ pc = "library"
  /\ ~fault
  /\ last.edits < MaxEdits
  /\ \E k \in DOMAIN rows :
       \E range \in SetHighlightRanges : \E token \in SetHighlightTokens :
         /\ rows' = buffer_row_set_highlight(rows, k, range[1], range[2], token)
         /\ last' = [op |-> "set_highlight", k |-> k, pass |-> 0,
                     first |-> rows, edits |-> last.edits + 1]
  /\ UNCHANGED <<buffer, kw2_past_end, past_storage, fresh_byte, revision, fault, editor, pc>>

\* editor_draw_buffers paints the dirty rows, which faults when it looks up
\* the style of a tag that has none (a tag that was never written is read as
\* fresh_byte), and clears their dirty flags.
HlDrawn ==
  /\ pc = "library"
  /\ ~fault
  /\ \E k \in DOMAIN rows : rows[k].dirty
  /\ rows' = [k \in DOMAIN rows |-> [rows[k] EXCEPT !.dirty = FALSE]]
  /\ fault' = DrawnFaults(rows, buffer)
  /\ last' = [op |-> "drawn", k |-> IF last.op = "highlight" THEN last.k ELSE NULL,
              pass |-> IF last.op = "highlight" THEN last.pass ELSE 0,
              first |-> last.first, edits |-> last.edits]
  /\ UNCHANGED <<buffer, kw2_past_end, past_storage, fresh_byte, revision, editor, pc>>

NextHL ==
  \/ HlInsertChar
  \/ HlRemoveChar
  \/ HlHighlight
  \/ HlSetHighlight
  \/ HlDrawn

SpecHL == InitHL /\ [][NextHL]_vars

(***************************************************************************)
(* Claims about the highlighter                                            *)
(***************************************************************************)
\* C7: highlighting is idempotent: a second buffer_row_highlight_line on a
\* row, its content and the previous row's exit state unchanged since the
\* first, leaves the same tags and the same exit state as the first and does
\* not re-highlight the following row.
C7_HighlightIdempotent ==
  (last.op = "highlight" /\ last.pass = 2) =>
    /\ Tags(rows[last.k]) = Tags(last.first[last.k])
    /\ ExitState(rows[last.k]) = ExitState(last.first[last.k])
    /\ rows[last.k].next # NULL =>
         /\ ~rows[rows[last.k].next].dirty
         /\ Tags(rows[rows[last.k].next]) = Tags(last.first[rows[last.k].next])

\* C8: when re-highlighting row k changes its exit state, row k+1 is
\* re-highlighted in the same call: its tags and exit state are those a
\* highlight pass over it yields, and when row k ends with a comment open
\* every character of row k+1 is tagged Comment.
C8_Cascade ==
  (/\ last.op \in {"insert_char", "remove_char"}
   /\ rows[last.k].next # NULL
   /\ ExitState(rows[last.k]) # ExitState(last.first[last.k])) =>
    LET nxt == rows[last.k].next
        fresh == buffer_row_highlight_line(rows, nxt)[nxt]
    IN /\ Tags(rows[nxt]) = Tags(fresh)
       /\ ExitState(rows[nxt]) = ExitState(fresh)
       /\ rows[last.k].highlight_comment_open # 0 =>
            \A i \in 1..rows[nxt].len :
              rows[nxt].highlight_data[i] = EHighlightToken_Comment

(***************************************************************************)
(* The editor (editor.c, command.c, main.c)                                *)
(***************************************************************************)
CH_h == Asc("h")
CH_l == Asc("l")
CH_j == Asc("j")
CH_k == Asc("k")
CH_CARET == Asc("^")
CH_DOLLAR == Asc("$")
CH_UG == Asc("G")
CH_w == Asc("w")
CH_b == Asc("b")
CH_g == Asc("g")
CH_d == Asc("d")
CH_x == Asc("x")
CH_i == Asc("i")
CH_q == Asc("q")
CH_f == Asc("f")
CH_2 == Asc("2")
CH_COLON == Asc(":")
CH_DEL == 127
\* The key codes of ncurses.
KEY_DOWN == 258
KEY_UP == 259
KEY_LEFT == 260
KEY_RIGHT == 261
KEY_BACKSPACE == 263

EDITOR_TOP_BAR_HEIGHT == 1
EDITOR_BOTTOM_BAR_HEIGHT == 2
COMMAND_BUFFER_DEFAULT_SIZE == 64
\* The size_t value 2^64 - 1, which 0 - 1 wraps to.
SIZE_MAX == -1

EditorState_Running == "EditorState_Running"
EditorState_CollectingCommand == "EditorState_CollectingCommand"
EditorState_ProcessingCommand == "EditorState_ProcessingCommand"
EditorState_EditMode == "EditorState_EditMode"
EditorState_Exiting == "EditorState_Exiting"

CommandResult_Success == "CommandResult_Success"
CommandResult_CommandNotFound == "CommandResult_CommandNotFound"
CommandResult_ShouldExit == "CommandResult_ShouldExit"

\* The terminal size getmaxyx reports to window_init.
\* The terminal sizes window_init may find: a window whose text area is
\* shorter than the longest document and one that is taller.
WindowHeight == 5
TallWindowHeight == 7
WindowWidth == 4
WindowHeights == {WindowHeight, TallWindowHeight}
\* sizeof(editor->key_sequence).  The Editor of editor.h declares no
\* key_sequence; the size taken here is one that a digit run of
\* MaxCountDigits digits fills.
KeySequenceSize == 4

\* error_message == NULL.
NoMessage == [text |-> "", arg |-> <<>>]

\* A Command whose buffer is NULL.  The buffer is given by the C string it
\* holds.
NoCommand ==
  [buffer |-> <<>>, allocated |-> FALSE, buffer_size |-> 0, cursor_position |-> 0]

\* The Editor as main initialises it.
main_editor ==
  [state |-> EditorState_Running,
   window |-> [height |-> 0, width |-> 0],
   command |-> NoCommand,
   error_message |-> NoMessage,
   cursor |-> [x |-> 2, y |-> 0],
   number_of_line_digits |-> 3,
   end_line_mode |-> FALSE,
   key_sequence |-> [k \in 1..KeySequenceSize |-> NUL],
   repeat_count |-> 0,
   tab_size |-> 2,
   start_column |-> 0,
   start_line |-> 0]

\* The program state a handler acts on: the heap of rows, the Buffer, the
\* Editor, whether a faulting access happened, the files written and the
\* value the last command returned.
Mach(rs, b, e) ==
  [rows |-> rs, buffer |-> b, editor |-> e, fault |-> FALSE, saved |-> <<>>,
   ret |-> CommandResult_Success]

CurrentRow(m) == buffer_get_current_line(m.buffer)
CurrentLen(m) == buffer_row_get_length(m.rows, CurrentRow(m))

editor_get_cursor_x(e) ==
  IF e.cursor.x + e.start_column < e.number_of_line_digits THEN 0
  ELSE e.cursor.x + e.start_column - e.number_of_line_digits

editor_home_cursor_x(m) ==
  [m EXCEPT !.editor.cursor.x = m.editor.number_of_line_digits,
            !.editor.start_column = 0]

\* buffer_row_mark_dirty on up to n rows from row id on.
RECURSIVE MarkDirtyRows(_, _, _)
MarkDirtyRows(rs, id, n) ==
  IF id = NULL \/ n <= 0 THEN rs
  ELSE MarkDirtyRows(buffer_row_mark_dirty(rs, id), rs[id].next, n - 1)

editor_mark_dirty_whole_screen(m) ==
  [m EXCEPT !.rows =
     MarkDirtyRows(m.rows, buffer_get_row(m.rows, m.buffer, m.editor.start_line),
                   m.editor.window.height - EDITOR_TOP_BAR_HEIGHT
                     - EDITOR_BOTTOM_BAR_HEIGHT)]

editor_mark_dirty_from_cursor(m) ==
  [m EXCEPT !.rows =
     MarkDirtyRows(m.rows, buffer_get_row(m.rows, m.buffer, m.editor.start_line),
                   m.editor.window.height)]

editor_home_cursor_y(m) ==
  editor_mark_dirty_whole_screen(
    [m EXCEPT !.editor.cursor.y = 1, !.editor.start_line = 0])

editor_home_cursor_xy(m) == editor_home_cursor_y(editor_home_cursor_x(m))

editor_clear_error_message(m) == [m EXCEPT !.editor.error_message = NoMessage]

editor_move_cursor_x_to_right(m, x, insert_mode) ==
  LET e == m.editor
      line_length == CurrentLen(m) - 1 + (IF insert_mode THEN 1 ELSE 0)
      chars_till_end == line_length - editor_get_cursor_x(e)
      chars_till_window_end == e.window.width - e.cursor.x - 1
      x1 == IF x > chars_till_end THEN chars_till_end ELSE x
  IN IF x1 > chars_till_window_end
       THEN [m EXCEPT !.editor.cursor.x = e.window.width - 1,
                      !.editor.start_column =
                         IF x1 - chars_till_window_end > 0
                           THEN @ + (x1 - chars_till_window_end) ELSE @]
       ELSE [m EXCEPT !.editor.cursor.x = @ + x1]

editor_move_cursor_x_to_left(m, x) ==
  LET e == m.editor
      chars_till_window == e.cursor.x - e.number_of_line_digits
      x1 == IF x > chars_till_window THEN x - chars_till_window ELSE 0
  IN [m EXCEPT !.editor.cursor.x =
                  IF x > chars_till_window THEN e.number_of_line_digits
                  ELSE e.cursor.x - x,
               !.editor.start_column =
                  IF x1 > e.start_column THEN 0 ELSE e.start_column - x1]

editor_move_cursor_x(m, x, insert_mode) ==
  IF x >= 0 THEN editor_move_cursor_x_to_right(m, x, insert_mode)
  ELSE editor_move_cursor_x_to_left(m, -x)

editor_move_cursor_y(m, y) ==
  LET e == m.editor
      text_height == e.window.height - EDITOR_BOTTOM_BAR_HEIGHT
                       - EDITOR_TOP_BAR_HEIGHT
      cy == e.cursor.y + y
      number_of_lines == buffer_get_number_of_lines(m.buffer)
      max_start == number_of_lines - e.window.height + EDITOR_BOTTOM_BAR_HEIGHT
                     + EDITOR_TOP_BAR_HEIGHT
      start == IF cy <= EDITOR_TOP_BAR_HEIGHT
                 THEN IF e.start_line + (cy - 1) < 0 THEN 0
                      ELSE e.start_line + (cy - 1)
               ELSE IF cy > text_height
                 THEN IF e.start_line + (cy - text_height) > max_start
                        THEN max_start
                        ELSE e.start_line + (cy - text_height)
               ELSE e.start_line
      m1 == [m EXCEPT !.editor.start_line = start,
                      !.editor.cursor.y =
                         IF cy <= EDITOR_TOP_BAR_HEIGHT THEN 1
                         ELSE IF cy > text_height THEN text_height
                         ELSE cy]
  IN IF start # e.start_line THEN editor_mark_dirty_whole_screen(m1) ELSE m1

editor_move_cursor_to_end(m) == editor_move_cursor_x(m, CurrentLen(m), FALSE)

\* A re-clamp that leaves the cursor where it is.
editor_fix_cursor_position_keeps(m) == m

editor_fix_cursor_position(m) ==
  IF CurrentLen(m) <= editor_get_cursor_x(m.editor)
    THEN editor_move_cursor_x(editor_home_cursor_x(m), CurrentLen(m), FALSE)
    ELSE m

editor_move_cursor_to_start(m) ==
  editor_move_cursor_x(
    editor_home_cursor_x(m),
    buffer_row_get_offset_to_first_char(m.rows, CurrentRow(m), 0), FALSE)

\* buffer_scroll_rows on the current buffer.
ScrollRows(m, n) == [m EXCEPT !.buffer = buffer_scroll_rows(m.rows, m.buffer, n)]

editor_move_to_top(m) ==
  IF buffer_current_is_first_row(m.rows, m.buffer) THEN m
  ELSE editor_home_cursor_xy([m EXCEPT !.buffer = buffer_scroll_to_top(m.buffer)])

editor_move_to_bottom(m) ==
  LET lines_to_the_end ==
        buffer_get_number_of_lines(m.buffer) - m.editor.start_line - 1
  IN IF buffer_current_is_last_row(m.rows, m.buffer) THEN m
     ELSE editor_fix_cursor_position(
            ScrollRows(editor_move_cursor_y(m, lines_to_the_end),
                       lines_to_the_end))

\* Moving one row up or down, as 'j', 'k' and the arrow keys do.
MoveRow(m, n) ==
  editor_fix_cursor_position(ScrollRows(editor_move_cursor_y(m, n), n))

\* The rows editor_draw_buffers paints: the dirty flag cleared on up to n
\* rows from row id on.
RECURSIVE ClearDirtyRows(_, _, _)
ClearDirtyRows(rs, id, n) ==
  IF id = NULL \/ n <= 0 THEN rs
  ELSE ClearDirtyRows([rs EXCEPT ![id].dirty = FALSE], rs[id].next, n - 1)

\* editor_draw_buffers after the end-of-line snap.
DrawRows(m) ==
  LET e == m.editor
      window_height == e.window.height - EDITOR_BOTTOM_BAR_HEIGHT
                         - EDITOR_TOP_BAR_HEIGHT + 1
      digits == count_digits(e.start_line + window_height) + 1
  IN [m EXCEPT !.editor.number_of_line_digits = digits,
               !.editor.cursor.x = IF @ <= digits THEN digits ELSE @,
               !.fault = @ \/ DrawRowsFault(
                                m.rows,
                                buffer_get_row(m.rows, m.buffer, e.start_line),
                                1, window_height, e.start_line, e.start_column,
                                digits),
               !.rows = ClearDirtyRows(
                          m.rows,
                          buffer_get_row(m.rows, m.buffer, e.start_line),
                          window_height - 1)]

editor_draw_buffers(m) ==
  DrawRows(IF m.editor.end_line_mode THEN editor_move_cursor_to_end(m) ELSE m)

editor_redraw_screen(m) == editor_draw_buffers(m)

editor_set_error_message(m, message) ==
  editor_redraw_screen(
    [m EXCEPT !.editor.error_message =
       [text |-> message,
        arg |-> IF m.editor.command.allocated
                  THEN SubSeq(m.editor.command.buffer, 1,
                              m.editor.command.cursor_position)
                  ELSE <<>>]])

command_init ==
  [buffer |-> <<>>, allocated |-> TRUE,
   buffer_size |-> COMMAND_BUFFER_DEFAULT_SIZE, cursor_position |-> 0]

command_deinit == NoCommand

command_append(command, ch) ==
  [command EXCEPT
     !.buffer_size = IF command.cursor_position = command.buffer_size - 1
                       THEN @ * 2 ELSE @,
     !.buffer = SubSeq(@, 1, command.cursor_position) \o <<ch>>,
     !.cursor_position = @ + 1]

\* (char)key.
ToChar(key) ==
  LET v == key % 256 IN IF v > 127 THEN v - 256 ELSE v

\* Whether editor_collect_command lets the dispatch loop continue.
editor_collect_command_ret(key) == key = CH_LF \/ key = CH_ESC

\* Command collection that stays in EditorState_CollectingCommand on Enter.
editor_collect_command_keeps_state(m, key) ==
  IF key = CH_LF THEN m
  ELSE IF key = CH_ESC
    THEN [m EXCEPT !.editor.command = command_deinit,
                   !.editor.state = EditorState_Running]
  ELSE [m EXCEPT !.editor.command = command_append(@, ToChar(key))]

\* editor_collect_command(editor, key): the editor after the call.
editor_collect_command(m, key) ==
  IF key = CH_LF THEN [m EXCEPT !.editor.state = EditorState_ProcessingCommand]
  ELSE IF key = CH_ESC
    THEN [m EXCEPT !.editor.command = command_deinit,
                   !.editor.state = EditorState_Running]
  ELSE IF key = KEY_BACKSPACE \/ key = CH_DEL
    THEN IF m.editor.command.cursor_position = 0
           THEN [m EXCEPT !.editor.command.cursor_position = SIZE_MAX,
                          !.fault = TRUE]
           ELSE [m EXCEPT !.editor.command.cursor_position = @ - 1,
                          !.editor.command.buffer =
                             SubSeq(@, 1, m.editor.command.cursor_position - 1)]
  ELSE [m EXCEPT !.editor.command = command_append(@, ToChar(key))]

\* The characters of s after its leading isspace characters.
RECURSIVE SkipSpaces(_)
SkipSpaces(s) ==
  IF s # <<>> /\ Head(s) \in whitespace THEN SkipSpaces(Tail(s)) ELSE s

\* What the save command writes: each row's data and a newline.
RECURSIVE FileText(_, _, _)
FileText(rs, id, fuel) ==
  IF id = NULL \/ fuel = 0 THEN <<>>
  ELSE CString(rs[id].data) \o <<CH_LF>> \o FileText(rs, rs[id].next, fuel - 1)

\* The handler's state with the value it returns.
Ret(m, value) == [m EXCEPT !.ret = value]

\* What the environment decides during a key event: whether fopen for
\* writing succeeds, and what the filename pointer buffer_alloc left
\* uninitialised holds.
Envs == [can_open : BOOLEAN, uninit : {"NULL", "wild"}]
DefaultEnv == [can_open |-> TRUE, uninit |-> "NULL"]

\* editor_process_save_command(editor); the result tells whether the
\* command asks to exit.
editor_process_save_command(m, env) ==
  LET cmd == m.editor.command.buffer
      command_length == Len(cmd)
      own == buffer_get_filename(m.buffer)
      arg == IF command_length > 1 /\ cmd[2] = CH_SPACE
               THEN SkipSpaces(SubSeq(cmd, 3, command_length)) ELSE <<>>
      filename == IF arg # <<>> THEN arg ELSE own
      should_exit == command_length > 1 /\ cmd[2] = CH_q
  IN IF command_length > 1 /\ cmd[2] # CH_SPACE /\ cmd[2] # CH_q
       THEN Ret(editor_set_error_message(m, "Invalid command syntax"),
                CommandResult_CommandNotFound)
     ELSE IF filename = <<Uninit>> /\ env.uninit = "wild"
       THEN Ret([m EXCEPT !.fault = TRUE], CommandResult_CommandNotFound)
     ELSE IF filename = <<Uninit>> \/ filename = <<>>
       THEN Ret(editor_set_error_message(m, "No filename specified for saving"),
                CommandResult_CommandNotFound)
     ELSE IF ~env.can_open
       THEN Ret(editor_set_error_message(m, "Failed to open file for writing"),
                CommandResult_CommandNotFound)
     ELSE Ret(editor_set_error_message(
                [m EXCEPT !.saved =
                   <<[filename |-> filename,
                      written |-> FileText(m.rows, buffer_get_first_row(m.buffer),
                                           Cardinality(DOMAIN m.rows))]>>],
                "File saved successfully"),
              IF should_exit THEN CommandResult_ShouldExit
              ELSE CommandResult_Success)

editor_process_command(m, env) ==
  IF ~m.editor.command.allocated THEN Ret(m, CommandResult_CommandNotFound)
  ELSE IF m.editor.command.buffer = <<CH_q>> THEN Ret(m, CommandResult_ShouldExit)
  ELSE IF m.editor.command.buffer # <<>> /\ m.editor.command.buffer[1] = CH_w
    THEN editor_process_save_command(m, env)
  ELSE Ret(m, CommandResult_CommandNotFound)

\* As CommandDone, with the state left as it is after a command that
\* succeeded.
CommandDone_keeps_state(r) ==
  IF r.fault THEN r
  ELSE IF r.ret = CommandResult_ShouldExit
    THEN [r EXCEPT !.editor.state = EditorState_Exiting,
                   !.editor.command = command_deinit]
  ELSE IF r.ret = CommandResult_CommandNotFound
    THEN [editor_set_error_message(r, "Command not found")
            EXCEPT !.editor.state = EditorState_Running,
                   !.editor.command = command_deinit]
  ELSE [r EXCEPT !.editor.command = command_deinit]

\* editor_process_key in EditorState_ProcessingCommand, r being the state
\* editor_process_command left.
CommandDone(r) ==
  IF r.fault THEN r
  ELSE IF r.ret = CommandResult_ShouldExit
    THEN [r EXCEPT !.editor.state = EditorState_Exiting,
                   !.editor.command = command_deinit]
  ELSE IF r.ret = CommandResult_CommandNotFound
    THEN [editor_set_error_message(r, "Command not found")
            EXCEPT !.editor.state = EditorState_Running,
                   !.editor.command = command_deinit]
  ELSE [r EXCEPT !.editor.state = EditorState_Running,
                 !.editor.command = command_deinit]

\* key_sequence[0] = c.
SetSequence(m, c) == [m EXCEPT !.editor.key_sequence[1] = c]

\* As editor_process_gkey_sequence, with the pending 'g' kept when another
\* key follows.
editor_process_gkey_sequence_keeps_prefix(m, key) ==
  IF key = CH_g
    THEN editor_fix_cursor_position(editor_move_to_top(SetSequence(m, NUL)))
    ELSE m

editor_process_gkey_sequence(m, key) ==
  IF key = CH_g
    THEN editor_fix_cursor_position(editor_move_to_top(SetSequence(m, NUL)))
    ELSE SetSequence(m, NUL)

\* buffer_remove_current_row on the current buffer.
RemoveCurrentRow(m) ==
  LET s == buffer_remove_current_row(m.rows, m.buffer)
  IN [m EXCEPT !.rows = s.rows, !.buffer = s.buffer]

\* The 'd' case of editor_process_dkey_sequence.
DeleteLine(m) ==
  IF buffer_get_number_of_lines(m.buffer) <= 1
    THEN [m EXCEPT !.rows = buffer_row_replace_line(m.rows, CurrentRow(m),
                                                    <<CH_LF>>)]
  ELSE IF buffer_remove_current_row_ret(m.rows, m.buffer) < 0
    THEN editor_move_cursor_y(RemoveCurrentRow(m), -1)
  ELSE RemoveCurrentRow(m)

\* The 'w' case of editor_process_dkey_sequence.
DeleteWord(m) ==
  LET offset_to_word ==
        buffer_row_get_offset_to_next_word(m.rows, CurrentRow(m),
                                           editor_get_cursor_x(m.editor))
  IN IF offset_to_word > 0
       THEN [m EXCEPT !.rows =
               buffer_row_remove_chars(m.rows, CurrentRow(m),
                                       editor_get_cursor_x(m.editor),
                                       offset_to_word)]
       ELSE m

editor_process_dkey_sequence(m, key) ==
  SetSequence(
    editor_fix_cursor_position(
      IF key = CH_d THEN editor_mark_dirty_from_cursor(DeleteLine(m))
      ELSE IF key = CH_w THEN DeleteWord(m)
      ELSE m),
    NUL)

IsDigitKey(key) == key >= CH_0 /\ key <= CH_9

\* atoi of the digits of a from C index i on.
RECURSIVE AtoiFrom(_, _, _)
AtoiFrom(a, i, acc) ==
  IF i < Len(a) /\ IsDigitKey(At(a, i))
    THEN AtoiFrom(a, i + 1, acc * 10 + (At(a, i) - CH_0))
    ELSE acc

atoi(a) == AtoiFrom(a, 0, 0)

\* What editor_process_key_sequence returns.
editor_process_key_sequence_ret(m, key) ==
  LET ks == m.editor.key_sequence
  IN \/ strlen_from(ks, 0) >= KeySequenceSize - 1
     \/ ~(ks[1] = NUL \/ IsDigitKey(ks[1]))
     \/ IsDigitKey(key)

editor_process_key_sequence(m, key) ==
  LET ks == m.editor.key_sequence
      current_length == strlen_from(ks, 0)
  IN IF current_length >= KeySequenceSize - 1 THEN SetSequence(m, NUL)
     ELSE IF ks[1] = NUL \/ IsDigitKey(ks[1])
       THEN IF IsDigitKey(key)
              THEN [m EXCEPT !.editor.key_sequence =
                      Put(Put(ks, current_length, ToChar(key)),
                          current_length + 1, NUL)]
              ELSE [m EXCEPT !.editor.repeat_count = atoi(ks) - 1,
                             !.editor.key_sequence[1] = NUL]
     ELSE IF key = CH_ESC THEN SetSequence(m, NUL)
     ELSE IF ks[1] = CH_g THEN editor_process_gkey_sequence(m, key)
     ELSE IF ks[1] = CH_d THEN editor_process_dkey_sequence(m, key)
     ELSE SetSequence(m, NUL)

\* The 'x' case of editor_process_editor_key.
DeleteChar(m) ==
  IF buffer_row_remove_char_ret(m.rows, CurrentRow(m),
                                editor_get_cursor_x(m.editor))
    THEN editor_fix_cursor_position(
           [m EXCEPT !.rows =
              buffer_row_remove_char(m.rows, CurrentRow(m),
                                     editor_get_cursor_x(m.editor))])
    ELSE m

editor_process_editor_key(m, key) ==
  CASE key = CH_h \/ key = KEY_LEFT ->
         editor_move_cursor_x([m EXCEPT !.editor.end_line_mode = FALSE], -1, FALSE)
    [] key = CH_l \/ key = KEY_RIGHT -> editor_move_cursor_x(m, 1, FALSE)
    [] key = CH_j \/ key = KEY_DOWN ->
         IF buffer_current_is_last_row(m.rows, m.buffer) THEN m
         ELSE MoveRow(m, 1)
    [] key = CH_k \/ key = KEY_UP ->
         IF buffer_current_is_first_row(m.rows, m.buffer) THEN m
         ELSE MoveRow(m, -1)
    [] key = CH_CARET ->
         editor_move_cursor_to_start([m EXCEPT !.editor.end_line_mode = FALSE])
    [] key = CH_DOLLAR ->
         [editor_move_cursor_to_end(m) EXCEPT !.editor.end_line_mode = TRUE]
    [] key = CH_UG ->
         editor_move_to_bottom([m EXCEPT !.editor.end_line_mode = FALSE])
    [] key = CH_w ->
         editor_move_cursor_x(
           m, buffer_row_get_offset_to_next_word(m.rows, CurrentRow(m),
                                                 editor_get_cursor_x(m.editor)),
           FALSE)
    [] key = CH_b ->
         editor_move_cursor_x(
           m, buffer_row_get_offset_to_prev_word(m.rows, CurrentRow(m),
                                                 editor_get_cursor_x(m.editor)),
           FALSE)
    [] key = CH_g -> SetSequence(m, CH_g)
    [] key = CH_d -> SetSequence(m, CH_d)
    [] key = CH_x -> DeleteChar(m)
    [] key = CH_i -> [m EXCEPT !.editor.end_line_mode = FALSE,
                               !.editor.state = EditorState_EditMode]
    [] key = CH_a ->
         editor_move_cursor_x([m EXCEPT !.editor.end_line_mode = FALSE,
                                        !.editor.state = EditorState_EditMode],
                              1, TRUE)
    [] key = CH_ESC -> editor_clear_error_message(m)
    [] OTHER -> IF IsDigitKey(key) THEN editor_process_key_sequence(m, key)
                ELSE m

\* buffer_row_insert_char at the cursor's buffer column.
InsertAtCursor(m, id, c) ==
  IF buffer_row_insert_chars_faults(m.rows, id, editor_get_cursor_x(m.editor), 1)
    THEN [m EXCEPT !.fault = TRUE]
    ELSE [m EXCEPT !.rows = buffer_row_insert_char(
                              m.rows, id, editor_get_cursor_x(m.editor), c)]

\* buffer_row_remove_char at the cursor's buffer column.
RemoveAtCursor(m, id) ==
  [m EXCEPT !.rows = buffer_row_remove_char(m.rows, id,
                                            editor_get_cursor_x(m.editor))]

\* buffer_join_current_line_with_previous on the current buffer.
JoinWithPrevious(m) ==
  LET s == buffer_join_current_line_with_previous(m.rows, m.buffer)
  IN [m EXCEPT !.rows = s.rows, !.buffer = s.buffer]

\* The cursor moves of the Backspace case after a join of chars characters.
AfterJoin(m, chars) ==
  editor_move_cursor_x(
    editor_move_cursor_x(m, m.rows[m.buffer.current_row].len, FALSE),
    -chars + 1, TRUE)

\* A break that ignores the cursor and splits at column 0.
BreakLine_at_column_0(m) ==
  LET s == buffer_break_current_line(m.rows, m.buffer, 0)
  IN [m EXCEPT !.rows = s.rows, !.buffer = s.buffer]

\* buffer_break_current_line at the cursor's buffer column.
BreakLine(m) ==
  LET s == buffer_break_current_line(m.rows, m.buffer,
                                     editor_get_cursor_x(m.editor))
  IN [m EXCEPT !.rows = s.rows, !.buffer = s.buffer]

\* The loop of the '\t' case.
RECURSIVE TabLoop(_, _, _)
TabLoop(m, id, i) ==
  IF i >= m.editor.tab_size THEN m
  ELSE TabLoop(editor_move_cursor_x(InsertAtCursor(m, id, CH_SPACE), 1, TRUE),
               id, i + 1)

\* An Insert mode that hands its keys to the Normal-mode dispatcher.
editor_insert_char_as_normal(m, key) == editor_process_editor_key(m, key)

editor_insert_char(m, key) ==
  CASE key = KEY_LEFT ->
         editor_move_cursor_x([m EXCEPT !.editor.end_line_mode = FALSE], -1, TRUE)
    [] key = KEY_RIGHT -> editor_move_cursor_x(m, 1, TRUE)
    [] key = KEY_UP ->
         IF buffer_current_is_first_row(m.rows, m.buffer) THEN m
         ELSE MoveRow(m, -1)
    [] key = KEY_DOWN ->
         IF buffer_current_is_last_row(m.rows, m.buffer) THEN m
         ELSE MoveRow(m, 1)
    [] key = KEY_BACKSPACE \/ key = CH_DEL ->
         IF m.editor.cursor.x > m.editor.number_of_line_digits
           THEN RemoveAtCursor(editor_move_cursor_x(m, -1, TRUE), CurrentRow(m))
         ELSE IF m.editor.cursor.x = m.editor.number_of_line_digits
           THEN IF buffer_join_current_line_with_previous_ret(m.rows, m.buffer) > 0
                  THEN AfterJoin(
                         editor_move_cursor_y(JoinWithPrevious(m), -1),
                         buffer_join_current_line_with_previous_ret(m.rows,
                                                                    m.buffer))
                  ELSE JoinWithPrevious(m)
         ELSE m
    [] key = CH_LF ->
         ScrollRows(
           editor_home_cursor_x(
             editor_move_cursor_y(BreakLine(editor_mark_dirty_from_cursor(m)), 1)),
           1)
    [] key = CH_TAB -> TabLoop(m, CurrentRow(m), 0)
    [] OTHER ->
         editor_move_cursor_x(InsertAtCursor(m, CurrentRow(m), ToChar(key)),
                              1, TRUE)

\* The loop of editor_process_key that applies the key repeat_count + 1
\* times.
RECURSIVE Repeat(_, _, _)
Repeat(m, key, i) ==
  IF i >= m.editor.repeat_count + 1 THEN m
  ELSE Repeat(editor_process_editor_key(m, key), key, i + 1)

\* The switch of editor_process_key in EditorState_Running.
RunningSwitch(m, key) ==
  IF key = CH_COLON
    THEN [editor_clear_error_message(m)
            EXCEPT !.editor.command = command_init,
                   !.editor.state = EditorState_CollectingCommand]
    ELSE [Repeat(m, key, 0) EXCEPT !.editor.repeat_count = 0]

\* editor_process_key in EditorState_Running.
RunningKey(m, key) ==
  IF m.editor.key_sequence[1] # NUL
    THEN IF editor_process_key_sequence_ret(m, key)
           THEN editor_process_key_sequence(m, key)
           ELSE RunningSwitch(editor_process_key_sequence(m, key), key)
    ELSE RunningSwitch(m, key)

\* As editor_process_key, with EditorState_Exiting handled as
\* EditorState_Running.
editor_process_key_exiting_runs(m, key, env) ==
  CASE m.editor.state = EditorState_CollectingCommand ->
         IF key = CH_LF
           THEN CommandDone(
                  editor_process_command(editor_collect_command(m, key), env))
         ELSE IF key = CH_ESC
           THEN RunningKey(editor_collect_command(m, key), key)
         ELSE editor_collect_command(m, key)
    [] m.editor.state = EditorState_ProcessingCommand ->
         CommandDone(editor_process_command(m, env))
    [] m.editor.state = EditorState_EditMode ->
         IF key = CH_ESC
           THEN editor_fix_cursor_position(
                  [m EXCEPT !.editor.state = EditorState_Running])
           ELSE editor_insert_char(m, key)
    [] OTHER -> RunningKey(m, key)

\* editor_process_key(editor, key); editor->key, which only the status bar
\* shows, is left out.
editor_process_key(m, key, env) ==
  CASE m.editor.state = EditorState_CollectingCommand ->
         IF key = CH_LF
           THEN CommandDone(
                  editor_process_command(editor_collect_command(m, key), env))
         ELSE IF key = CH_ESC
           THEN RunningKey(editor_collect_command(m, key), key)
         ELSE editor_collect_command(m, key)
    [] m.editor.state = EditorState_ProcessingCommand ->
         CommandDone(editor_process_command(m, env))
    [] m.editor.state = EditorState_Running -> RunningKey(m, key)
    [] m.editor.state = EditorState_EditMode ->
         IF key = CH_ESC
           THEN editor_fix_cursor_position(
                  [m EXCEPT !.editor.state = EditorState_Running])
           ELSE editor_insert_char(m, key)
    [] OTHER -> m

editor_should_exit(e) == e.state = EditorState_Exiting

\* editor_init: window_init reads the terminal size, the cursor goes home.
editor_init(m, height) ==
  editor_home_cursor_xy(
    [m EXCEPT !.editor.window = [height |-> height, width |-> WindowWidth]])

\* buffer_free(buffer): the rows reached from head are freed, then the file
\* name, then the Buffer.  A filename pointer that was never set holds what
\* uninit tells; one that is not NULL is handed to free.
buffer_free(rs, b, uninit) ==
  LET freed == {RowList(rs, b.head, Cardinality(DOMAIN rs))[i] :
                  i \in 1..Len(RowList(rs, b.head, Cardinality(DOMAIN rs)))}
  IN [rows |-> [k \in DOMAIN rs \ freed |-> rs[k]],
      buffer |-> NULL,
      fault |-> b.filename = <<Uninit>> /\ uninit = "wild"]

\* editor_deinit(editor): the one buffer of the editor is freed, then the
\* list of buffers and the status message.
editor_deinit(m, env) ==
  LET f == buffer_free(m.rows, m.buffer, env.uninit)
  IN IF f.fault THEN [m EXCEPT !.rows = f.rows, !.buffer = f.buffer, !.fault = TRUE]
     ELSE [m EXCEPT !.rows = f.rows, !.buffer = f.buffer,
                    !.editor.error_message = NoMessage]

\* The lines getline reads from a file: each ends with its newline, the
\* last one possibly without.
RECURSIVE GetLines(_, _)
GetLines(content, line) ==
  IF content = <<>> THEN (IF line = <<>> THEN <<>> ELSE <<line>>)
  ELSE IF Head(content) = CH_LF
    THEN <<line \o <<CH_LF>>>> \o GetLines(Tail(content), <<>>)
  ELSE GetLines(Tail(content), line \o <<Head(content)>>)

\* The loop of buffer_load_from_file: buffer_append_line on each line.
RECURSIVE LoadLines(_, _)
LoadLines(s, lines) ==
  IF lines = <<>> THEN s
  ELSE LoadLines(append_row(s.rows, s.buffer, Head(lines), FALSE), Tail(lines))

\* buffer_load_from_file(buffer, filename); file tells whether the path can
\* be opened and what it holds.
buffer_load_from_file(rs, b, file) ==
  IF ~file.opens THEN [rows |-> rs, buffer |-> b]
  ELSE [LoadLines([rows |-> rs, buffer |-> b], GetLines(file.content, <<>>))
          EXCEPT !.buffer.filename = file.name]

editor_load_file(m, file) ==
  LET s == buffer_load_from_file(NoRows, buffer_alloc, file)
  IN [m EXCEPT !.rows = s.rows, !.buffer = s.buffer]

editor_create_new_file(m) ==
  LET s == append_row(NoRows, buffer_alloc, <<CH_LF>>, FALSE)
  IN [m EXCEPT !.rows = s.rows, !.buffer = s.buffer]

(***************************************************************************)
(* Spec: main.  The editor is initialised, the file named on the command   *)
(* line is loaded (or a new one created), and the loop redraws the screen  *)
(* and processes one key at a time.                                        *)
(***************************************************************************)
MaxEdRows == 3
MaxEdLen == 2
MaxCommandLen == 3
MaxCountDigits == 3
MaxKeys == 5

\* What a file named on the command line may hold.
FileContents ==
  {<<>>, <<CH_a>>, <<CH_a, CH_LF>>, <<CH_a, CH_LF, CH_SPACE, CH_a, CH_LF>>,
   <<CH_LF, CH_a, CH_LF, CH_LF>>}

\* The command lines main is started with: no argument, a path that cannot
\* be opened, a path that can.
StartFiles ==
  {[given |-> FALSE, opens |-> FALSE, name |-> <<>>, content |-> <<>>],
   [given |-> TRUE, opens |-> FALSE, name |-> <<CH_f>>, content |-> <<>>]}
  \cup {[given |-> TRUE, opens |-> TRUE, name |-> <<CH_f>>, content |-> c] :
          c \in FileContents}

\* main up to its loop.
main_start(file, height) ==
  IF file.given
    THEN editor_load_file(
           editor_init(Mach(NoRows, buffer_alloc, main_editor), height), file)
    ELSE editor_create_new_file(
           editor_init(Mach(NoRows, buffer_alloc, main_editor), height))

NormalKeys ==
  {CH_h, CH_l, CH_j, CH_k, CH_CARET, CH_DOLLAR, CH_UG, CH_w, CH_b, CH_g, CH_d,
   CH_x, CH_i, CH_a, CH_ESC, CH_COLON, CH_0, CH_2, KEY_UP, KEY_DOWN}
InsertKeys ==
  {CH_a, CH_SPACE, CH_LF, CH_ESC, KEY_BACKSPACE, KEY_LEFT, CH_COLON, CH_q, CH_2,
   CH_g, CH_d}
CommandKeys == {CH_w, CH_q, CH_SPACE, CH_a, CH_LF, CH_ESC, KEY_BACKSPACE}

\* The keys getch may deliver in the editor's state.
KeysIn(e) ==
  IF e.state = EditorState_Running THEN NormalKeys
  ELSE IF e.state = EditorState_EditMode THEN InsertKeys
  ELSE IF e.state = EditorState_CollectingCommand THEN CommandKeys
  ELSE {}

\* The environment matters to the key that executes a command.
EnvsFor(e, key) ==
  IF e.state = EditorState_CollectingCommand /\ key = CH_LF THEN Envs
  ELSE {DefaultEnv}

\* The document, the command line and the digit run stay within the bounds.
InBounds(m) ==
  /\ Cardinality(DOMAIN m.rows) <= MaxEdRows
  /\ \A id \in DOMAIN m.rows : m.rows[id].len <= MaxEdLen
  /\ Len(m.editor.command.buffer) <= MaxCommandLen
  /\ IsDigitKey(m.editor.key_sequence[1])
       => strlen_from(m.editor.key_sequence, 0) <= MaxCountDigits

Init ==
  /\ kw2_past_end = "null"
  /\ past_storage = "other"
  /\ fresh_byte = EHighlightToken_Normal
  /\ revision = "buffer_row.c"
  /\ fault = FALSE
  /\ pc = "redraw"
  /\ \E file \in StartFiles, height \in WindowHeights :
       \E m \in {main_start(file, height)} :
         /\ rows = m.rows
         /\ buffer = m.buffer
         /\ editor = m.editor
         /\ last = [op |-> "load", keys |-> 0, file |-> file, run |-> <<>>]

\* editor_redraw_screen at the top of the loop of main.
Redraw ==
  /\ pc = "redraw"
  /\ ~fault
  /\ \E m \in {editor_redraw_screen(Mach(rows, buffer, editor))} :
       /\ rows' = m.rows
       /\ buffer' = m.buffer
       /\ editor' = m.editor
       /\ fault' = m.fault
  /\ pc' = "getch"
  /\ last' = [op |-> "redraw", keys |-> last.keys, run |-> last.run]
  /\ UNCHANGED <<kw2_past_end, past_storage, fresh_byte, revision>>

\* getch delivers a key and editor_process_key handles it; main leaves the
\* loop once the editor should exit.  At most MaxKeys keys are delivered.  The history keeps the digits typed in a row in
\* Normal mode, from a digit typed with no key sequence pending on: typed
\* before the key, run with it.
KeyPress ==
  /\ pc = "getch"
  /\ ~fault
  /\ last.keys < MaxKeys
  /\ \E key \in KeysIn(editor) :
       \E env \in EnvsFor(editor, key) :
         \E m \in {editor_process_key(Mach(rows, buffer, editor), key, env)} :
           /\ InBounds(m)
           /\ rows' = m.rows
           /\ buffer' = m.buffer
           /\ editor' = m.editor
           /\ fault' = m.fault
           /\ pc' = IF editor_should_exit(m.editor) THEN "deinit" ELSE "redraw"
           /\ last' = [op |-> "key", keys |-> last.keys + 1, key |-> key,
                       env |-> env,
                       before |-> [rows |-> rows, buffer |-> buffer,
                                   editor |-> editor],
                       saved |-> m.saved,
                       typed |-> last.run,
                       run |-> IF /\ editor.state = EditorState_Running
                                  /\ IsDigitKey(key)
                                  /\ \/ last.run # <<>>
                                     \/ editor.key_sequence[1] = NUL
                                 THEN Append(last.run, key) ELSE <<>>]
  /\ UNCHANGED <<kw2_past_end, past_storage, fresh_byte, revision>>

\* editor_deinit after the loop of main.  The environment matters when the
\* filename pointer was never set.
Deinit ==
  /\ pc = "deinit"
  /\ ~fault
  /\ \E env \in IF buffer.filename = <<Uninit>>
                  THEN {e \in Envs : e.can_open} ELSE {DefaultEnv} :
       \E m \in {editor_deinit(Mach(rows, buffer, editor), env)} :
         /\ rows' = m.rows
         /\ buffer' = m.buffer
         /\ editor' = m.editor
         /\ fault' = m.fault
         /\ last' = [op |-> "deinit", keys |-> last.keys, env |-> env]
  /\ pc' = "exit"
  /\ UNCHANGED <<kw2_past_end, past_storage, fresh_byte, revision>>

Next ==
  \/ Redraw
  \/ KeyPress
  \/ Deinit

Spec == Init /\ [][Next]_vars

(***************************************************************************)
(* SpecApi: a client of editor.h that, unlike main, may go on calling      *)
(* editor_process_key on an editor that should exit.                       *)
(***************************************************************************)
MaxApiKeys == 4

\* The client's loop as that of main, followed for MaxApiKeys keys.
ApiKeyPress ==
  /\ last.keys < MaxApiKeys
  /\ KeyPress

\* editor_process_key called once more on an editor that is Exiting.
KeyAfterExit ==
  /\ pc = "deinit"
  /\ ~fault
  /\ \E key \in NormalKeys \cup InsertKeys \cup CommandKeys :
       \E m \in {editor_process_key(Mach(rows, buffer, editor), key, DefaultEnv)} :
         /\ rows' = m.rows
         /\ buffer' = m.buffer
         /\ editor' = m.editor
         /\ fault' = m.fault
         /\ last' = [op |-> "key_after_exit", keys |-> last.keys, key |-> key,
                     before |-> [rows |-> rows, buffer |-> buffer,
                                 editor |-> editor]]
  /\ UNCHANGED <<kw2_past_end, past_storage, fresh_byte, revision, pc>>

NextApi ==
  \/ Redraw
  \/ ApiKeyPress
  \/ KeyAfterExit
  \/ Deinit

SpecApi == Init /\ [][NextApi]_vars

(***************************************************************************)
(* Claims about saving and loading                                         *)
(***************************************************************************)
\* The contents of the rows of a document in list order.
RECURSIVE RowContents(_, _, _)
RowContents(rs, id, fuel) ==
  IF id = NULL \/ fuel = 0 THEN <<>>
  ELSE <<Content(rs[id])>> \o RowContents(rs, rs[id].next, fuel - 1)

\* The document s holds as many rows as the editor's, with the same
\* contents.
SameDocument(s) ==
  /\ s.buffer.number_of_rows = buffer.number_of_rows
  /\ RowContents(s.rows, s.buffer.head, Cardinality(DOMAIN s.rows))
       = RowContents(rows, buffer.head, Cardinality(DOMAIN rows))

\* C9: for every document reachable by key events, writing it with the w
\* command and loading the written file yields a document with the same
\* number of rows and, row by row, the same content.
C9_SaveLoadRoundTrip ==
  (last.op = "key" /\ last.saved # <<>>) =>
    SameDocument(
      buffer_load_from_file(
        NoRows, buffer_alloc,
        [opens |-> TRUE, name |-> last.saved[1].filename,
         content |-> last.saved[1].written]))

\* C10: loading a path that cannot be opened, and likewise a file with no
\* lines, leaves the editor with a document of exactly one empty row, with
\* current_row set to that row.
C10_UnopenableLoadsOneEmptyRow ==
  (/\ last.op = "load"
   /\ last.file.given
   /\ (~last.file.opens \/ last.file.content = <<>>)) =>
    /\ buffer.number_of_rows = 1
    /\ buffer.current_row # NULL
    /\ buffer.current_row = buffer.head
    /\ rows[buffer.current_row].len = 0

(***************************************************************************)
(* Claims about the modal dispatcher                                       *)
(***************************************************************************)
\* The last step was editor_process_key called in the given state.
KeyIn(state) == last.op = "key" /\ last.before.editor.state = state

\* The command line collected before the last key.
CommandLine == last.before.editor.command.buffer

\* The document is the one before the last key: the same rows in the same
\* order with the same contents, and the same current row.
DocumentUnchanged ==
  /\ DOMAIN rows = DOMAIN last.before.rows
  /\ buffer.number_of_rows = last.before.buffer.number_of_rows
  /\ buffer.current_row = last.before.buffer.current_row
  /\ RowContents(rows, buffer.head, Cardinality(DOMAIN rows))
       = RowContents(last.before.rows, last.before.buffer.head,
                     Cardinality(DOMAIN last.before.rows))
  /\ \A id \in DOMAIN rows : rows[id].len = last.before.rows[id].len

\* C11: once the editor state is EditorState_Exiting, a later call of
\* editor_process_key with any key leaves the mode Exiting and changes
\* neither the document, the cursor and viewport, the pending key sequence
\* nor the repeat count.
C11_ExitingIsTerminal ==
  last.op = "key_after_exit" =>
    /\ editor.state = EditorState_Exiting
    /\ rows = last.before.rows
    /\ buffer = last.before.buffer
    /\ editor.cursor = last.before.editor.cursor
    /\ editor.start_line = last.before.editor.start_line
    /\ editor.start_column = last.before.editor.start_column
    /\ editor.key_sequence = last.before.editor.key_sequence
    /\ editor.repeat_count = last.before.editor.repeat_count

\* The key 'i', which in Normal mode enters Insert mode, was delivered to an
\* editor that had exited from a document with a row.
C11_Witness ==
  /\ last.op = "key_after_exit"
  /\ last.before.editor.state = EditorState_Exiting
  /\ last.key = CH_i
  /\ buffer.number_of_rows > 0

\* C12: Enter in Command-collect executes the collected line within the same
\* key event: when editor_process_key returns the mode is Running or Exiting
\* and the command buffer has been released, whatever the line; the mode is
\* never ProcessingCommand between two key events.
C12_CommandExecuteTransient ==
  ~fault =>
    /\ editor.state # EditorState_ProcessingCommand
    /\ (KeyIn(EditorState_CollectingCommand) /\ last.key = CH_LF) =>
         /\ editor.state \in {EditorState_Running, EditorState_Exiting}
         /\ editor.command = NoCommand

\* Enter executed the line "w" and the file was written.
C12_Witness ==
  /\ KeyIn(EditorState_CollectingCommand)
  /\ last.key = CH_LF
  /\ CommandLine = <<CH_w>>
  /\ last.saved # <<>>
  /\ editor.state = EditorState_Running

\* C13: the mode becomes Exiting only by the Enter that executes a collected
\* command: the line exactly "q", or the line exactly "wq" whose save
\* succeeded.  No other key in any mode, and no other line, sets it.
C13_ExitOnlyByCommand ==
  (last.op = "key" /\ editor.state = EditorState_Exiting) =>
    /\ last.before.editor.state = EditorState_CollectingCommand
    /\ last.key = CH_LF
    /\ \/ CommandLine = <<CH_q>>
       \/ CommandLine = <<CH_w, CH_q>> /\ last.saved # <<>>

\* C14: Backspace in Command-collect with an empty command line is a no-op:
\* cursor_position stays 0, the command buffer is unchanged, nothing outside
\* the buffer is written and the mode stays Command-collect.
C14_BackspaceAtEmptyCommand ==
  (/\ KeyIn(EditorState_CollectingCommand)
   /\ last.before.editor.command.cursor_position = 0
   /\ last.key \in {KEY_BACKSPACE, CH_DEL}) =>
    /\ ~fault
    /\ editor.command = last.before.editor.command
    /\ editor.state = EditorState_CollectingCommand

\* The line is a write command: "w", the write command "wq", or "w" and a
\* space with or without a path.
IsWriteCommand(line) ==
  /\ line # <<>>
  /\ line[1] = CH_w
  /\ Len(line) > 1 => (line[2] = CH_SPACE \/ line[2] = CH_q)

\* C15: when a write command cannot save (the destination cannot be opened,
\* or no filename is known), a status message reports it and the editor
\* stays open: the mode is Running, also for "wq", and the document is
\* unchanged.
C15_SaveFailureKeepsEditorOpen ==
  (/\ KeyIn(EditorState_CollectingCommand)
   /\ last.key = CH_LF
   /\ IsWriteCommand(CommandLine)
   /\ last.saved = <<>>) =>
    /\ ~fault
    /\ editor.state = EditorState_Running
    /\ editor.error_message # NoMessage
    /\ DocumentUnchanged

\* C17: 'd' 'd' in Normal mode on a document of exactly one row leaves one
\* row, and that row is empty; on a document of more rows it removes exactly
\* the current row.
C17_DeleteLine ==
  (/\ KeyIn(EditorState_Running)
   /\ last.before.editor.key_sequence[1] = CH_d
   /\ strlen_from(last.before.editor.key_sequence, 0) < KeySequenceSize - 1
   /\ last.key = CH_d
   /\ last.before.buffer.number_of_rows >= 1) =>
    IF last.before.buffer.number_of_rows = 1
      THEN /\ buffer.number_of_rows = 1
           /\ DOMAIN rows = DOMAIN last.before.rows
           /\ rows[buffer.current_row].len = 0
           /\ CString(rows[buffer.current_row].data) = <<>>
      ELSE /\ buffer.number_of_rows = last.before.buffer.number_of_rows - 1
           /\ DOMAIN rows = DOMAIN last.before.rows
                              \ {last.before.buffer.current_row}

\* C18: in Normal mode with no pending key sequence the key '0' starts no
\* repeat count: the pending key sequence is still empty after it, and the
\* 'j' that follows it moves one row down.
C18_ZeroStartsNoCount ==
  /\ (/\ KeyIn(EditorState_Running)
      /\ last.before.editor.key_sequence[1] = NUL
      /\ last.key = CH_0) =>
       editor.key_sequence[1] = NUL
  /\ (/\ KeyIn(EditorState_Running)
      /\ CString(last.before.editor.key_sequence) = <<CH_0>>
      /\ last.key = CH_j
      /\ last.before.buffer.current_row # NULL
      /\ last.before.rows[last.before.buffer.current_row].next # NULL) =>
       buffer.current_row
         = last.before.rows[last.before.buffer.current_row].next

\* The number of rows after row id, and before it.
RECURSIVE RowsBelow(_, _)
RowsBelow(rs, id) ==
  IF rs[id].next = NULL THEN 0 ELSE 1 + RowsBelow(rs, rs[id].next)
RECURSIVE RowsAbove(_, _)
RowsAbove(rs, id) ==
  IF rs[id].prev = NULL THEN 0 ELSE 1 + RowsAbove(rs, rs[id].prev)

\* The digit run typed before the last key, as a number.
TypedCount == atoi(last.typed)

\* After the digit run and 'j': the current row has moved down by
\* min(N, rows below it), the document is otherwise as it was, and no key
\* sequence is pending.
CountedDown ==
  LET b == last.before
  IN /\ DOMAIN rows = DOMAIN b.rows
     /\ RowContents(rows, buffer.head, Cardinality(DOMAIN rows))
          = RowContents(b.rows, b.buffer.head, Cardinality(DOMAIN b.rows))
     /\ RowsAbove(rows, buffer.current_row)
          = RowsAbove(b.rows, b.buffer.current_row)
              + Min(TypedCount, RowsBelow(b.rows, b.buffer.current_row))
     /\ editor.key_sequence[1] = NUL

\* A digit run with value N >= 1 was typed in Normal mode, the first digit
\* with no key sequence pending, and the key after it is 'j', on a document
\* with a current row.
CountThenDown ==
  /\ KeyIn(EditorState_Running)
  /\ last.typed # <<>>
  /\ TypedCount >= 1
  /\ last.key = CH_j
  /\ last.before.buffer.current_row # NULL

\* C19: a digit run with value N >= 1 typed in Normal mode and followed by
\* 'j' moves the current row down by min(N, number of rows below it), and
\* afterwards the pending key sequence is empty.
C19_CountedMotion == CountThenDown => CountedDown

\* The key completes the pending prefix: 'g' after 'g', 'd' or 'w' after 'd'.
IsCompletion(prefix, key) ==
  \/ prefix = CH_g /\ key = CH_g
  \/ prefix = CH_d /\ key \in {CH_d, CH_w}

\* C20: while a 'g' or 'd' prefix is pending, a key that does not complete
\* it (Escape, ':', 'i' and 'a' included) is consumed: afterwards no key
\* sequence is pending, the mode is still Normal and the document is
\* unchanged.
C20_UnrecognisedCompletionConsumed ==
  (/\ KeyIn(EditorState_Running)
   /\ last.before.editor.key_sequence[1] \in {CH_g, CH_d}
   /\ ~IsCompletion(last.before.editor.key_sequence[1], last.key)) =>
    /\ editor.key_sequence[1] = NUL
    /\ editor.state = EditorState_Running
    /\ DocumentUnchanged

\* 'g' was pending and 'i' was pressed on a document with a row.
C20_Witness ==
  /\ KeyIn(EditorState_Running)
  /\ last.before.editor.key_sequence[1] = CH_g
  /\ last.key = CH_i
  /\ buffer.number_of_rows > 0
  /\ editor.state = EditorState_Running

(***************************************************************************)
(* Claims about Insert mode.                                               *)
(***************************************************************************)
\* The rows of the document before the last key, and now.
RowsBefore ==
  RowContents(last.before.rows, last.before.buffer.head,
              Cardinality(DOMAIN last.before.rows))
RowsNow == RowContents(rows, buffer.head, Cardinality(DOMAIN rows))

\* The cursor's buffer column before the last key.
ColumnBefore == editor_get_cursor_x(last.before.editor)

\* The concatenation of the contents of rows.
RECURSIVE Concat(_)
Concat(contents) ==
  IF contents = <<>> THEN <<>> ELSE Head(contents) \o Concat(Tail(contents))

\* The key was pressed in Insert mode on a document with a current row.
InsertKey(key) ==
  /\ KeyIn(EditorState_EditMode)
  /\ last.key = key
  /\ last.before.buffer.current_row # NULL

\* C21: Enter in Insert mode at buffer column c <= |s| of the current row r
\* with content s adds exactly one row, leaves s[0..c) in r and s[c..] in the row
\* right after it, changes no other row, makes the new row current with the
\* cursor at buffer column 0, and keeps the concatenation of all rows.
C21_EnterSplitsRow ==
  (/\ InsertKey(CH_LF)
   /\ ColumnBefore <= last.before.rows[last.before.buffer.current_row].len) =>
    LET r == last.before.buffer.current_row
        s == Content(last.before.rows[r])
        k == RowsAbove(last.before.rows, r)
    IN /\ buffer.number_of_rows = last.before.buffer.number_of_rows + 1
       /\ RowsNow = SubSeq(RowsBefore, 1, k)
                      \o <<SubSeq(s, 1, ColumnBefore),
                           SubSeq(s, ColumnBefore + 1, Len(s))>>
                      \o SubSeq(RowsBefore, k + 2, Len(RowsBefore))
       /\ buffer.current_row # NULL
       /\ RowsAbove(rows, buffer.current_row) = k + 1
       /\ editor_get_cursor_x(editor) = 0
       /\ Concat(RowsNow) = Concat(RowsBefore)

\* Enter in the middle of a row that has a row above.
C21_Witness ==
  /\ InsertKey(CH_LF)
  /\ ColumnBefore > 0
  /\ ColumnBefore < last.before.rows[last.before.buffer.current_row].len
  /\ last.before.rows[last.before.buffer.current_row].prev # NULL
  /\ buffer.number_of_rows = last.before.buffer.number_of_rows + 1

\* The index in the document of the row the cursor's screen row shows.
ScreenRowIndex(e) == e.start_line + (e.cursor.y - 1)

\* Backspace joined the current row to its predecessor: the predecessor
\* holds both contents and is the current row, the other rows are as they
\* were, and the cursor is at the join point on the predecessor's screen row.
JoinedWithPredecessor ==
  LET r == last.before.buffer.current_row
      p == last.before.rows[r].prev
      k == RowsAbove(last.before.rows, r)
  IN /\ buffer.number_of_rows = last.before.buffer.number_of_rows - 1
     /\ RowsNow = SubSeq(RowsBefore, 1, k - 1)
                    \o <<Content(last.before.rows[p])
                           \o Content(last.before.rows[r])>>
                    \o SubSeq(RowsBefore, k + 2, Len(RowsBefore))
     /\ buffer.current_row = p
     /\ ScreenRowIndex(editor) = k - 1
     /\ editor_get_cursor_x(editor) = last.before.rows[p].len

\* C22: Backspace in Insert mode at buffer column 0 of a row that has a
\* predecessor, whatever the row holds, appends the row to the predecessor,
\* removes it, makes the predecessor current and puts the cursor on the
\* predecessor's screen row at the join point; on the first row it changes
\* nothing.
C22_BackspaceJoins ==
  (/\ InsertKey(KEY_BACKSPACE)
   /\ ColumnBefore = 0) =>
    IF last.before.rows[last.before.buffer.current_row].prev # NULL
      THEN JoinedWithPredecessor
      ELSE /\ DocumentUnchanged
           /\ editor.cursor = last.before.editor.cursor
           /\ editor.start_line = last.before.editor.start_line
           /\ editor.start_column = last.before.editor.start_column

\* C23: Backspace in Insert mode at buffer column c > 0 of the current row,
\* whatever start_column is, deletes exactly the character at column c - 1,
\* moves the cursor to buffer column c - 1, and leaves number_of_rows and
\* every other row unchanged.
C23_BackspaceDeletesLeft ==
  (/\ InsertKey(KEY_BACKSPACE)
   /\ ColumnBefore > 0
   /\ ColumnBefore <= last.before.rows[last.before.buffer.current_row].len) =>
    LET r == last.before.buffer.current_row
        s == Content(last.before.rows[r])
        k == RowsAbove(last.before.rows, r)
    IN /\ buffer.number_of_rows = last.before.buffer.number_of_rows
       /\ buffer.current_row = r
       /\ RowsNow = [RowsBefore EXCEPT ![k + 1] =
                       SubSeq(s, 1, ColumnBefore - 1)
                         \o SubSeq(s, ColumnBefore + 1, Len(s))]
       /\ editor_get_cursor_x(editor) = ColumnBefore - 1

\* C24: in Insert mode every key but Escape (':', 'q', digits, 'g' and 'd'
\* included) leaves the mode Insert and the key-sequence accumulator and
\* the repeat count untouched and unarmed; Escape sets the mode to Normal and
\* leaves the cursor's buffer column no greater than the current row's
\* length.
C24_OnlyEscapeLeavesInsert ==
  KeyIn(EditorState_EditMode) =>
    IF last.key = CH_ESC
      THEN /\ editor.state = EditorState_Running
           /\ editor_get_cursor_x(editor)
                <= buffer_row_get_length(rows, buffer.current_row)
      ELSE /\ editor.state = EditorState_EditMode
           /\ editor.key_sequence[1] = NUL
           /\ editor.key_sequence = last.before.editor.key_sequence
           /\ editor.repeat_count = last.before.editor.repeat_count

\* 'd' was typed in Insert mode and went into the current row.
C24_Witness ==
  /\ InsertKey(CH_d)
  /\ editor.state = EditorState_EditMode
  /\ \E i \in 1..Len(RowsNow) :
       \E j \in 1..Len(RowsNow[i]) : RowsNow[i][j] = CH_d

(***************************************************************************)
(* Claims about the boundaries of the row list.                            *)
(***************************************************************************)
\* C25: after any sequence of document mutations the row list is acyclic and
\* doubly consistent: head.prev and tail.next are null, r.next.prev = r and
\* r.prev.next = r for every linked row, tail is the last row reachable from
\* head, and current_row is a row reachable from head.
C25_ListConsistent ==
  LET n == Cardinality(DOMAIN rows)
  IN /\ buffer.head # NULL /\ buffer.tail # NULL
     /\ rows[buffer.head].prev = NULL
     /\ rows[buffer.tail].next = NULL
     /\ \A r \in DOMAIN rows :
          /\ rows[r].next # NULL => rows[rows[r].next].prev = r
          /\ rows[r].prev # NULL => rows[rows[r].prev].next = r
     /\ ReachableRows(rows, buffer.head, n + 1) <= n
     /\ ScrollFrom(rows, buffer.head, n) = buffer.tail
     /\ \E k \in 0..(n - 1) : Walk(rows, buffer.head, k) = buffer.current_row

\* C26: buffer_insert_row_at with anchor NULL makes the new row the head, and
\* with the last row as anchor makes the new row the tail.
C26_InsertUpdatesBoundaries ==
  last.op = "insert_row_at" =>
    /\ last.row = NULL => buffer.head = last.new
    /\ last.at_end => buffer.tail = last.new

(***************************************************************************)
(* Claims about the viewport.                                              *)
(***************************************************************************)
\* The number of text rows of the window.
VisibleHeight(e) ==
  e.window.height - EDITOR_TOP_BAR_HEIGHT - EDITOR_BOTTOM_BAR_HEIGHT

Max(a, b) == IF a >= b THEN a ELSE b

\* C27: after any sequence of key events the vertical scroll offset
\* satisfies 0 <= start_line <= max(0, number_of_rows - visible_height).
C27_StartLineInRange ==
  last.op = "key" =>
    /\ editor.start_line >= 0
    /\ editor.start_line
         <= Max(0, buffer.number_of_rows - VisibleHeight(editor))

\* C28: after every key processed in Normal or Insert mode the cursor's
\* screen row addresses the current row: the index of current_row in the
\* document is start_line + (cursor.y - 1).
C28_CursorAddressesCurrentRow ==
  (/\ last.op = "key"
   /\ last.before.editor.state \in {EditorState_Running, EditorState_EditMode}
   /\ buffer.current_row # NULL) =>
    RowsAbove(rows, buffer.current_row) = ScreenRowIndex(editor)

\* C29: after every processed key the cursor lies in the visible text area:
\* number_of_line_digits <= cursor.x <= window.width - 1 and
\* 1 <= cursor.y <= window.height - 3; re-clamping the cursor on an empty row
\* never places cursor.x inside the gutter.
C29_CursorInTextArea ==
  last.op = "key" =>
    /\ editor.number_of_line_digits <= editor.cursor.x
    /\ editor.cursor.x <= editor.window.width - 1
    /\ 1 <= editor.cursor.y
    /\ editor.cursor.y <= VisibleHeight(editor)

\* The rows of the document that the window shows: those with an index in
\* start_line .. start_line + visible_height - 1.
VisibleRows(rs, b, e) ==
  {Walk(rs, b.head, i) :
     i \in {j \in e.start_line..(e.start_line + VisibleHeight(e) - 1) :
              j >= 0 /\ j < ReachableRows(rs, b.head, Cardinality(DOMAIN rs))}}

\* C30: whenever a key event changes start_line, every row of the new
\* visible window is marked dirty before the next redraw.
C30_ScrollMarksWindowDirty ==
  (/\ last.op = "key"
   /\ editor.start_line # last.before.editor.start_line) =>
    \A id \in VisibleRows(rows, buffer, editor) : rows[id].dirty

(***************************************************************************)
(* Claims about the cursor column and the gutter.                          *)
(***************************************************************************)
\* The last key was a vertical motion: 'j', 'k', an arrow or 'G' with no
\* 'g' or 'd' prefix pending, or the second 'g' of "gg".
VerticalKey ==
  /\ KeyIn(EditorState_Running)
  /\ \/ /\ last.before.editor.key_sequence[1] \notin {CH_g, CH_d}
        /\ last.key \in {CH_j, CH_k, KEY_UP, KEY_DOWN, CH_UG}
     \/ /\ last.before.editor.key_sequence[1] = CH_g
        /\ last.key = CH_g

\* C31: after every vertical move ('j', 'k', arrow up/down, 'G', "gg") that
\* changed the current row, the cursor's buffer column does not exceed the
\* length of the new current row.
C31_ColumnWithinNewRow ==
  (/\ VerticalKey
   /\ buffer.current_row # last.before.buffer.current_row) =>
    editor_get_cursor_x(editor)
      <= buffer_row_get_length(rows, buffer.current_row)

\* 'j' from the end of a longer row onto a shorter row that is not empty.
C31_Witness ==
  /\ VerticalKey
  /\ last.key = CH_j
  /\ buffer.current_row # last.before.buffer.current_row
  /\ ColumnBefore >= rows[buffer.current_row].len
  /\ rows[buffer.current_row].len > 0
  /\ editor_get_cursor_x(editor) < ColumnBefore

(***************************************************************************)
(* SpecGutter: documents of empty lines in windows of several heights,     *)
(* scrolled down with 'j' and redrawn.                                     *)
(***************************************************************************)
MaxGutterRows == 5
MaxGutterHeight == 12

\* A file of k empty lines.
EmptyLines(k) ==
  [given |-> TRUE, opens |-> TRUE, name |-> <<CH_f>>,
   content |-> [i \in 1..k |-> CH_LF]]

InitGutter ==
  /\ kw2_past_end = "null"
  /\ past_storage = "other"
  /\ fresh_byte = EHighlightToken_Normal
  /\ revision = "buffer_row.c"
  /\ fault = FALSE
  /\ pc = "gutter"
  /\ \E k \in 1..MaxGutterRows, height \in 4..MaxGutterHeight :
       \E m \in {main_start(EmptyLines(k), height)} :
         /\ rows = m.rows
         /\ buffer = m.buffer
         /\ editor = m.editor
         /\ last = [op |-> "load", keys |-> 0]

\* editor_redraw_screen.
GutterRedraw ==
  /\ pc = "gutter"
  /\ last.op # "redraw"
  /\ \E m \in {editor_redraw_screen(Mach(rows, buffer, editor))} :
       /\ rows' = m.rows
       /\ buffer' = m.buffer
       /\ editor' = m.editor
       /\ fault' = m.fault
  /\ last' = [op |-> "redraw", keys |-> last.keys]
  /\ UNCHANGED <<kw2_past_end, past_storage, fresh_byte, revision, pc>>

\* The key 'j' after a redraw.
GutterDown ==
  /\ pc = "gutter"
  /\ last.op = "redraw"
  /\ ~buffer_current_is_last_row(rows, buffer)
  /\ \E m \in {editor_process_key(Mach(rows, buffer, editor), CH_j, DefaultEnv)} :
       /\ rows' = m.rows
       /\ buffer' = m.buffer
       /\ editor' = m.editor
  /\ last' = [op |-> "down", keys |-> last.keys + 1]
  /\ UNCHANGED <<kw2_past_end, past_storage, fresh_byte, revision, fault, pc>>

NextGutter ==
  \/ GutterRedraw
  \/ GutterDown

SpecGutter == InitGutter /\ [][NextGutter]_vars

\* The largest line number the window shows: the number of the last
\* document row that falls into start_line + 1 .. start_line + height.
LargestLineShown ==
  Min(buffer.number_of_rows, editor.start_line + VisibleHeight(editor))

\* C32: after every redraw that shows a row, number_of_line_digits is the
\* number of decimal digits of the largest line number shown, plus one.
C32_GutterWidth ==
  (/\ last.op = "redraw"
   /\ editor.start_line >= 0
   /\ editor.start_line < buffer.number_of_rows) =>
    editor.number_of_line_digits = DecimalDigits(LargestLineShown) + 1

(***************************************************************************)
(* Claims about the storage of a row.                                      *)
(***************************************************************************)
\* C33: after any sequence of row operations every row satisfies
\* 0 <= len <= allocated_size - 1, so that index len lies inside the
\* allocated storage, and in the revision with the highlighter the tag
\* array has the capacity of the character storage.
C33_LenWithinStorage ==
  \A id \in DOMAIN rows :
    /\ 0 <= rows[id].len
    /\ rows[id].len <= rows[id].allocated_size - 1
    /\ rows[id].len + 1 <= Len(rows[id].data)
    /\ revision = "buffer_row.c" =>
         Len(rows[id].highlight_data) = Len(rows[id].data)

(***************************************************************************)
(* SpecScan: a document of three rows; buffer_row_highlight_line is        *)
(* applied to its rows, and editor_draw_buffers paints them in between.    *)
(***************************************************************************)
MaxScanLen == 5

ScanChars == {CH_SLASH, CH_STAR, CH_a, CH_2}

\* The first row: empty, one that leaves a block comment open, one that
\* leaves a string open over a line continuation, and one that hands a
\* started preprocessor word on to the next row.
ScanFirstRows ==
  {<<>>, <<CH_SLASH, CH_STAR>>, <<CH_DQUOTE, CH_BACKSLASH>>,
   <<CH_DQUOTE, CH_BACKSLASH, CH_SPACE, CH_DQUOTE, CH_HASH, CH_a>>}

\* The second row: every text over ScanChars, a string continued over the
\* end of the row, a string that holds a digit, and a text with a blank.
ScanSecondRows ==
  SeqsUpTo(ScanChars, MaxScanLen)
    \cup {<<CH_DQUOTE, CH_BACKSLASH>>, <<CH_DQUOTE, CH_2, CH_DQUOTE>>,
          <<CH_SPACE, CH_a>>}

ScanThirdRow == <<CH_a>>

InitScan ==
  /\ kw2_past_end = "null"
  /\ past_storage \in PastStorageOutcomes
  /\ fresh_byte \in FreshByteOutcomes
  /\ revision = "buffer_row.c"
  /\ fault = FALSE
  /\ editor = NoEditor
  /\ pc = "scan"
  /\ \E first \in ScanFirstRows : \E second \in ScanSecondRows :
       \E s1 \in {append_row(NoRows, buffer_alloc, first \o <<CH_LF>>, FALSE)} :
         \E s2 \in {append_row(s1.rows, s1.buffer, second \o <<CH_LF>>, FALSE)} :
           \E s3 \in {append_row(s2.rows, s2.buffer,
                                 ScanThirdRow \o <<CH_LF>>, FALSE)} :
             /\ rows = s3.rows
             /\ buffer = s3.buffer
             /\ last = [op |-> "append_line", k |-> s3.buffer.tail,
                        first |-> s3.rows]

\* buffer_row_highlight_line(row) on a row of the document as loaded or as
\* painted.
ScanHighlight ==
  /\ pc = "scan"
  /\ ~fault
  /\ last.op # "highlight"
  /\ \E k \in DOMAIN rows :
       /\ rows' = buffer_row_highlight_line(rows, k)
       /\ last' = [op |-> "highlight", k |-> k, first |-> rows]
  /\ UNCHANGED <<buffer, kw2_past_end, past_storage, fresh_byte, revision, fault, editor, pc>>

\* editor_draw_buffers paints the dirty rows, which faults when it looks up
\* the style of a tag that has none (a tag that was never written is read as
\* fresh_byte), and clears their dirty flags.
ScanDrawn ==
  /\ pc = "scan"
  /\ last.op = "append_line"
  /\ rows' = [k \in DOMAIN rows |-> [rows[k] EXCEPT !.dirty = FALSE]]
  /\ fault' = DrawnFaults(rows, buffer)
  /\ last' = [op |-> "drawn", k |-> NULL, first |-> rows]
  /\ UNCHANGED <<buffer, kw2_past_end, past_storage, fresh_byte, revision, editor, pc>>

NextScan ==
  \/ ScanHighlight
  \/ ScanDrawn

SpecScan == InitScan /\ [][NextScan]_vars

(***************************************************************************)
(* Claims about the highlighter's scan of a row                            *)
(***************************************************************************)
\* The rows before row k in list order.
RECURSIVE RowsBeforeRow(_, _)
RowsBeforeRow(rs, k) ==
  IF rs[k].prev = NULL THEN {}
  ELSE {rs[k].prev} \cup RowsBeforeRow(rs, rs[k].prev)

\* C34: buffer_row_highlight_line(row k) changes no row before k: content,
\* tags, exit state and dirty flag of every row before k are as they were,
\* whether or not the pass went on to the rows after k.
C34_RowsBeforeUntouched ==
  last.op = "highlight" =>
    \A j \in RowsBeforeRow(last.first, last.k) : rows[j] = last.first[j]

\* Row k has a row before it and a row after it, all painted; the pass over
\* row k went on to the row after it and marked it.
C34_Witness ==
  /\ last.op = "highlight"
  /\ rows[last.k].prev # NULL
  /\ rows[last.k].next # NULL
  /\ ~last.first[rows[last.k].next].dirty
  /\ rows[rows[last.k].next].dirty
  /\ ~rows[rows[last.k].prev].dirty


\* Row k starts in Normal state: no row before it, or the row before it
\* ended with no comment and no string open.
StartsNormal(rs, k) ==
  \/ rs[k].prev = NULL
  \/ /\ rs[rs[k].prev].highlight_comment_open = 0
     /\ rs[rs[k].prev].highlight_string_open = 0

IsDigit(c) == c >= CH_0 /\ c <= CH_9

\* data[i], data[i + 1] are the two characters a, b.
PairAt(row, i, a, b) ==
  /\ i >= 0
  /\ i + 1 < row.len
  /\ At(row.data, i) = a
  /\ At(row.data, i + 1) = b

\* No string, comment or preprocessor region starts before character i.
NoRegionBefore(row, i) ==
  /\ \A j \in 0..(i - 1) :
       At(row.data, j) \notin {CH_DQUOTE, CH_SQUOTE, CH_HASH, CH_BACKSLASH}
  /\ \A j \in 0..(i - 2) :
       ~PairAt(row, j, CH_SLASH, CH_SLASH) /\ ~PairAt(row, j, CH_SLASH, CH_STAR)

\* The identifier characters that run up to character i are all digits: no
\* identifier is in progress at i.
NoIdentifierBefore(row, i) ==
  \A j \in 0..(i - 1) :
    (\A n \in j..(i - 1) : IsAlnum_(At(row.data, n))) => IsDigit(At(row.data, j))

\* C35: after buffer_row_highlight_line on a row that starts in Normal state,
\* every digit outside any string, comment or preprocessor region that is
\* not part of an identifier in progress is tagged Digit.
C35_DigitsTagged ==
  (last.op = "highlight" /\ StartsNormal(rows, last.k)) =>
    \A i \in 0..(rows[last.k].len - 1) :
      (/\ IsDigit(At(rows[last.k].data, i))
       /\ NoRegionBefore(rows[last.k], i)
       /\ NoIdentifierBefore(rows[last.k], i)) =>
        At(rows[last.k].highlight_data, i) = EHighlightToken_Digit

\* The first "//" of the row is at p.
FirstLineComment(row, p) ==
  /\ PairAt(row, p, CH_SLASH, CH_SLASH)
  /\ \A j \in 0..(p - 1) : ~PairAt(row, j, CH_SLASH, CH_SLASH)

\* C36: on a row that starts in Normal state and holds "//" outside any
\* string or block comment, every character from the first '/' of that "//"
\* to the end of the row is tagged Comment, whatever follows, and the row
\* does not end comment-open.
C36_LineCommentToEnd ==
  (last.op = "highlight" /\ StartsNormal(rows, last.k)) =>
    \A p \in 0..(rows[last.k].len - 2) :
      (FirstLineComment(rows[last.k], p) /\ NoRegionBefore(rows[last.k], p)) =>
        /\ \A i \in p..(rows[last.k].len - 1) :
             At(rows[last.k].highlight_data, i) = EHighlightToken_Comment
        /\ rows[last.k].highlight_comment_open = 0

\* The row before row k ended inside a block comment.
StartsInComment(rs, k) ==
  /\ rs[k].prev # NULL
  /\ rs[rs[k].prev].highlight_comment_open # 0

\* The first "*/" of the row is at q.
FirstCommentEnd(row, q) ==
  /\ PairAt(row, q, CH_STAR, CH_SLASH)
  /\ \A j \in 0..(q - 1) : ~PairAt(row, j, CH_STAR, CH_SLASH)

\* The tags of a text highlighted as the only row of a document.
TagsFromNormal(text) ==
  LET s == append_row(NoRows, buffer_alloc, text \o <<CH_LF>>, FALSE)
  IN Tags(s.rows[s.buffer.tail])

\* The characters of a row after character i.
RestAfter(row, i) == SubSeq(row.data, i + 2, row.len)

\* C37, the comment ends: on a row that starts in Comment state the first "*/",
\* at any position, closes the comment; the characters up to and including
\* it are tagged Comment.
C37_CommentEndCloses ==
  (last.op = "highlight" /\ StartsInComment(rows, last.k)) =>
    \A q \in 0..(rows[last.k].len - 2) :
      FirstCommentEnd(rows[last.k], q) =>
        /\ \A i \in 0..(q + 1) :
             At(rows[last.k].highlight_data, i) = EHighlightToken_Comment
        /\ (\A j \in (q + 2)..(rows[last.k].len - 2) :
              ~PairAt(rows[last.k], j, CH_SLASH, CH_STAR)) =>
             rows[last.k].highlight_comment_open = 0

\* C37, the rest of the row: the characters after the first "*/" are tagged
\* as a scan from Normal state tags them.
C37_RestFromNormal ==
  (last.op = "highlight" /\ StartsInComment(rows, last.k)) =>
    \A q \in 0..(rows[last.k].len - 2) :
      FirstCommentEnd(rows[last.k], q) =>
        SubSeq(rows[last.k].highlight_data, q + 3, rows[last.k].len)
          = TagsFromNormal(RestAfter(rows[last.k], q + 1))

\* C37: a row whose predecessor ended inside a block comment starts in
\* Comment state; the first "*/" on it, also at characters 0 and 1, closes
\* the comment: the characters up to and including it are tagged Comment,
\* those after it are scanned from Normal state, and the row does not end
\* comment-open unless a "/*" follows.
C37_CommentClosedOnRow ==
  C37_CommentEndCloses /\ C37_RestFromNormal


\* C38: after a row is re-highlighted its highlight_comment_open describes
\* its content: a row whose predecessor is not comment-open and that holds
\* no "/*" does not end inside a block comment, so the flag is clear, also
\* when the row held an unclosed "/*" before it was edited.
C38_ExitStateCurrent ==
  (/\ last.op \in {"insert_char", "remove_char", "highlight"}
   /\ ~StartsInComment(rows, last.k)
   /\ \A j \in 0..(rows[last.k].len - 2) :
        ~PairAt(rows[last.k], j, CH_SLASH, CH_STAR)) =>
    rows[last.k].highlight_comment_open = 0


(***************************************************************************)
(* Claims about the repeat count and the dispatch of a key                 *)
(***************************************************************************)
\* C39: the key that ends a digit run consumes the repeat count: once that
\* key has been processed, whatever it is, ':' included, repeat_count is
\* back to 0 (one execution), so that no later key is repeated by it.
C39_CountConsumed ==
  (/\ KeyIn(EditorState_Running)
   /\ IsDigitKey(last.before.editor.key_sequence[1])
   /\ ~IsDigitKey(last.key)) =>
    editor.repeat_count = 0

\* The passes of the dispatch loop that are followed before the loop is
\* given up as not returning.
MaxPasses == 4

\* One pass of the while loop of editor_process_key: the machine after it,
\* and whether the pass returned from the function.
DispatchPass(m, key, env) ==
  CASE m.editor.state = EditorState_CollectingCommand ->
         [m |-> editor_collect_command(m, key),
          returned |-> ~editor_collect_command_ret(key)]
    [] m.editor.state = EditorState_ProcessingCommand ->
         [m |-> CommandDone(editor_process_command(m, env)), returned |-> TRUE]
    [] m.editor.state = EditorState_Running ->
         [m |-> RunningKey(m, key), returned |-> TRUE]
    [] m.editor.state = EditorState_EditMode ->
         [m |-> IF key = CH_ESC
                  THEN editor_fix_cursor_position(
                         [m EXCEPT !.editor.state = EditorState_Running])
                  ELSE editor_insert_char(m, key),
          returned |-> TRUE]
    [] m.editor.state = EditorState_Exiting -> [m |-> m, returned |-> TRUE]
    [] OTHER -> [m |-> m, returned |-> FALSE]

\* The while loop of editor_process_key, pass by pass.
RECURSIVE DispatchLoop(_, _, _, _)
DispatchLoop(m, key, env, passes) ==
  IF passes >= MaxPasses THEN [m |-> m, passes |-> passes, returned |-> FALSE]
  ELSE CHOOSE r \in {IF p.returned
                       THEN [m |-> p.m, passes |-> passes + 1, returned |-> TRUE]
                       ELSE DispatchLoop(p.m, key, env, passes + 1) :
                     p \in {DispatchPass(m, key, env)}} : TRUE

(***************************************************************************)
(* SpecDispatch: main as in Spec, followed for MaxDispatchKeys keys.       *)
(***************************************************************************)
MaxDispatchKeys == 4

DispatchKeyPress ==
  /\ last.keys < MaxDispatchKeys
  /\ KeyPress

NextDispatch ==
  \/ Redraw
  \/ DispatchKeyPress
  \/ Deinit

SpecDispatch == Init /\ [][NextDispatch]_vars

\* The loop on the last key, from the state the key was pressed in.
LastDispatch ==
  DispatchLoop(Mach(last.before.rows, last.before.buffer, last.before.editor),
               last.key, last.env, 0)

\* C40: editor_process_key returns for every mode, pending key sequence and
\* key: its dispatch loop makes at most two passes, the second one after
\* Command-collect has handed over to Command-execute or to Normal, and
\* leaves the editor as the key's handler leaves it.
C40_DispatchReturns ==
  last.op = "key" =>
    \A r \in {LastDispatch} :
      /\ r.returned
      /\ r.passes <= 2
      /\ r.passes = 2 =>
           /\ last.before.editor.state = EditorState_CollectingCommand
           /\ last.key \in {CH_LF, CH_ESC}
      /\ r.m.rows = rows
      /\ r.m.buffer = buffer
      /\ editor = r.m.editor

\* Enter in Command-collect: the second pass executes the command.
C40_Witness ==
  /\ KeyIn(EditorState_CollectingCommand)
  /\ last.key = CH_LF
  /\ LastDispatch.passes = 2
  /\ LastDispatch.returned
  /\ editor.state = EditorState_Running

====
